---------------------------- MODULE Spec2Model ----------------------------
(***************************************************************************)
(* OmnixStorage Python SDK (omnix-storage-py): the SigV4 signer, the       *)
(* presigned-URL guardrail, the session-token cache and the retrying       *)
(* transport, as state machines.                                           *)
(*                                                                         *)
(* Python str values are TLA+ strings, handled character by character      *)
(* with Len, SubSeq and \o.  hashlib / hmac are outside the repository:    *)
(* a digest is a stand-in that depends on every character of its input and *)
(* on the character's position and prints as lower-case hexadecimal.       *)
(***************************************************************************)
EXTENDS Integers, Sequences, FiniteSets, TLC

VARIABLES
    now,        \* the wall clock, in seconds since 2026-01-01T00:00:00Z
    call,       \* the operation being executed and its arguments
    result,     \* what the operation returned or raised, and what it did
    earlier,    \* the result of the previous run of the same call, <<>> when none
    signer,     \* the AwsSignatureV4Signer object: [access_key, secret_key]
    client,     \* the OmnixClient object's configuration fields
    jwt_token,          \* OmnixClient._jwt_token, <<>> for None
    token_expires_at,   \* OmnixClient._token_expires_at, <<>> for None
    tasks,      \* the coroutines calling into the client: where each one stands
    history,    \* the calls the coroutines have completed, in order of completion
    counters    \* requests sent, tokens issued, cache writes and events so far

\* The objects and the coroutines: no signing call and no presigned-URL call
\* assigns to them.
objVars == <<signer, client, jwt_token, token_expires_at, tasks, history, counters>>

vars == <<now, call, result, earlier, objVars>>

(***************************************************************************)
(* Python str primitives                                                   *)
(***************************************************************************)

\* The printable ASCII characters in code-point order: 32 .. 95 and 97 .. 126
\* (the grave accent, 96, is not in the model's alphabet).
AsciiLow == " !\"#$%&'()*+,-./0123456789:;<=>?@ABCDEFGHIJKLMNOPQRSTUVWXYZ[\\]^_"
AsciiHigh == "abcdefghijklmnopqrstuvwxyz{|}~"

\* ord() of a single character.
OrdLookup ==
    [c \in {SubSeq(AsciiLow, i, i) : i \in 1..Len(AsciiLow)}
           \cup {SubSeq(AsciiHigh, i, i) : i \in 1..Len(AsciiHigh)}
           \cup {"\t", "\n", "\r", "\f"} |->
        CASE c = "\t" -> 9
          [] c = "\n" -> 10
          [] c = "\f" -> 12
          [] c = "\r" -> 13
          [] \E i \in 1..Len(AsciiLow) : SubSeq(AsciiLow, i, i) = c ->
                31 + (CHOOSE i \in 1..Len(AsciiLow) : SubSeq(AsciiLow, i, i) = c)
          [] OTHER ->
                96 + (CHOOSE i \in 1..Len(AsciiHigh) : SubSeq(AsciiHigh, i, i) = c)]

\* The same table, enumerated once.
OrdTable == OrdLookup @@ <<>>

Ord(c) == OrdTable[c]

\* chr() of a printable code point.
Chr(n) == IF n <= 95 THEN SubSeq(AsciiLow, n - 31, n - 31)
          ELSE SubSeq(AsciiHigh, n - 96, n - 96)

CharAt(s, i) == SubSeq(s, i, i)

IsUpperChar(c) == Ord(c) >= 65 /\ Ord(c) <= 90
IsLowerChar(c) == Ord(c) >= 97 /\ Ord(c) <= 122
IsDigitChar(c) == Ord(c) >= 48 /\ Ord(c) <= 57
IsAlphaChar(c) == IsUpperChar(c) \/ IsLowerChar(c)

\* The characters str.strip() removes (ASCII whitespace).
Whitespace == {" ", "\t", "\n", "\r", "\f"}

Min(S) == CHOOSE x \in S : \A y \in S : x <= y
Max(S) == CHOOSE x \in S : \A y \in S : x >= y

\* str.lower() and str.upper(), by halves so that long strings stay shallow.
RECURSIVE StrLower(_)
StrLower(s) ==
    IF Len(s) = 0 THEN ""
    ELSE IF Len(s) = 1 THEN (IF IsUpperChar(s) THEN Chr(Ord(s) + 32) ELSE s)
    ELSE LET m == Len(s) \div 2
         IN  StrLower(SubSeq(s, 1, m)) \o StrLower(SubSeq(s, m + 1, Len(s)))

RECURSIVE StrUpper(_)
StrUpper(s) ==
    IF Len(s) = 0 THEN ""
    ELSE IF Len(s) = 1 THEN (IF IsLowerChar(s) THEN Chr(Ord(s) - 32) ELSE s)
    ELSE LET m == Len(s) \div 2
         IN  StrUpper(SubSeq(s, 1, m)) \o StrUpper(SubSeq(s, m + 1, Len(s)))

\* str.strip()
Strip(s) ==
    LET keep == {i \in 1..Len(s) : CharAt(s, i) \notin Whitespace}
    IN  IF keep = {} THEN "" ELSE SubSeq(s, Min(keep), Max(keep))

\* str.rstrip(chars)
RStrip(s, chars) ==
    LET keep == {i \in 1..Len(s) : CharAt(s, i) \notin chars}
    IN  IF keep = {} THEN "" ELSE SubSeq(s, 1, Max(keep))

StartsWith(s, prefix) ==
    Len(s) >= Len(prefix) /\ SubSeq(s, 1, Len(prefix)) = prefix

EndsWith(s, suffix) ==
    Len(s) >= Len(suffix) /\ SubSeq(s, Len(s) - Len(suffix) + 1, Len(s)) = suffix

\* The index of the first character of s that is in chars, 0 when there is none.
FindFirst(s, chars) ==
    LET hits == {i \in 1..Len(s) : CharAt(s, i) \in chars}
    IN  IF hits = {} THEN 0 ELSE Min(hits)

\* The index of the last character of s that is in chars, 0 when there is none.
FindLast(s, chars) ==
    LET hits == {i \in 1..Len(s) : CharAt(s, i) \in chars}
    IN  IF hits = {} THEN 0 ELSE Max(hits)

\* str.split(sep) for a one-character separator: the sequence of fields.
Split(s, sep) ==
    LET cuts == {i \in 1..Len(s) : CharAt(s, i) = sep}
        n == Cardinality(cuts)
        \* the position of the k-th separator; 0 before the first field and
        \* Len(s) + 1 after the last
        cut(k) == IF k = 0 THEN 0
                  ELSE IF k = n + 1 THEN Len(s) + 1
                  ELSE CHOOSE i \in cuts : Cardinality({j \in cuts : j < i}) = k - 1
    IN  [k \in 1..(n + 1) |-> SubSeq(s, cut(k - 1) + 1, cut(k) - 1)]

\* Whether int(s) succeeds: optional surrounding whitespace, an optional sign,
\* then decimal digits, single underscores allowed between digits.
IsPyInt(s) ==
    LET t == Strip(s)
        u == IF Len(t) > 0 /\ CharAt(t, 1) \in {"+", "-"} THEN SubSeq(t, 2, Len(t)) ELSE t
    IN  /\ Len(u) > 0
        /\ \A i \in 1..Len(u) : IsDigitChar(CharAt(u, i)) \/ CharAt(u, i) = "_"
        /\ IsDigitChar(CharAt(u, 1)) /\ IsDigitChar(CharAt(u, Len(u)))
        /\ \A i \in 1..(Len(u) - 1) : ~(CharAt(u, i) = "_" /\ CharAt(u, i + 1) = "_")

RECURSIVE DigitsValue(_)
DigitsValue(u) ==
    IF Len(u) = 0 THEN 0
    ELSE LET c == CharAt(u, Len(u))
             rest == SubSeq(u, 1, Len(u) - 1)
         IN  IF c = "_" THEN DigitsValue(rest)
             ELSE 10 * DigitsValue(rest) + (Ord(c) - 48)

\* int(s), for an s that IsPyInt accepts.
PyInt(s) ==
    LET t == Strip(s)
        neg == Len(t) > 0 /\ CharAt(t, 1) = "-"
        u == IF Len(t) > 0 /\ CharAt(t, 1) \in {"+", "-"} THEN SubSeq(t, 2, Len(t)) ELSE t
    IN  IF neg THEN 0 - DigitsValue(u) ELSE DigitsValue(u)

\* str(n) for an integer n.
RECURSIVE NatToStr(_)
NatToStr(n) ==
    IF n < 10 THEN Chr(48 + n)
    ELSE NatToStr(n \div 10) \o Chr(48 + (n % 10))

IntToStr(n) == IF n < 0 THEN "-" \o NatToStr(0 - n) ELSE NatToStr(n)

(***************************************************************************)
(* OmnixClient._is_internal_host                                           *)
(***************************************************************************)

\* client.py 124-132: the 172.16.0.0/12 test on the second dotted field.
Is172Private(normalized) ==
    LET parts == Split(normalized, ".")
    IN  /\ Len(parts) > 1
        /\ IsPyInt(parts[2])
        /\ 16 <= PyInt(parts[2])
        /\ PyInt(parts[2]) <= 31

\* A classifier that compares the host as written, without strip() and lower().
_is_internal_host_as_written(host) ==
    IF host \in {"localhost", "127.0.0.1", "::1"} THEN TRUE
    ELSE IF EndsWith(host, ".local") \/ EndsWith(host, ".internal") THEN TRUE
    ELSE IF StartsWith(host, "10.") \/ StartsWith(host, "192.168.") THEN TRUE
    ELSE IF StartsWith(host, "172.") THEN Is172Private(host)
    ELSE FALSE

_is_internal_host(host) ==
    LET normalized == StrLower(Strip(host))
    IN  IF normalized \in {"localhost", "127.0.0.1", "::1"} THEN TRUE
        ELSE IF EndsWith(normalized, ".local") \/ EndsWith(normalized, ".internal") THEN TRUE
        ELSE IF StartsWith(normalized, "10.") \/ StartsWith(normalized, "192.168.") THEN TRUE
        ELSE IF StartsWith(normalized, "172.") THEN Is172Private(normalized)
        ELSE FALSE

(***************************************************************************)
(* Python dict, urllib.parse.quote, datetime.strftime, hashlib, hmac       *)
(***************************************************************************)

\* Whether sub occurs in s (Python: sub in s).
Contains(s, sub) ==
    \E i \in 1..(Len(s) - Len(sub) + 1) : SubSeq(s, i, i + Len(sub) - 1) = sub

\* a < b in Python's str order (code point by code point, a proper prefix first).
StrLess(a, b) ==
    LET n == IF Len(a) < Len(b) THEN Len(a) ELSE Len(b)
        diff == {i \in 1..n : CharAt(a, i) # CharAt(b, i)}
    IN  IF diff = {} THEN Len(a) < Len(b)
        ELSE Ord(CharAt(a, Min(diff))) < Ord(CharAt(b, Min(diff)))

\* A dict is the sequence of its <<key, value>> items in insertion order, keys unique.
DictKeys(d) == {d[i][1] : i \in 1..Len(d)}
DictHas(d, k) == k \in DictKeys(d)
DictGet(d, k) == d[CHOOSE i \in 1..Len(d) : d[i][1] = k][2]

\* d[k] = v: an existing key keeps its place, a new key goes last.
DictSet(d, k, v) ==
    IF DictHas(d, k)
    THEN [i \in 1..Len(d) |-> IF d[i][1] = k THEN <<k, v>> ELSE d[i]]
    ELSE Append(d, <<k, v>>)

\* d.update(other)
RECURSIVE DictUpdate(_, _)
DictUpdate(d, other) ==
    IF Len(other) = 0 THEN d
    ELSE DictUpdate(DictSet(d, other[1][1], other[1][2]), Tail(other))

\* sorted(d.items()): by key, the keys of a dict being distinct.
RECURSIVE SortedItems(_)
SortedItems(d) ==
    IF Len(d) <= 1 THEN d
    ELSE LET rest == SortedItems(Tail(d))
             k == Cardinality({j \in 1..Len(rest) : StrLess(rest[j][1], d[1][1])})
         IN  SubSeq(rest, 1, k) \o <<d[1]>> \o SubSeq(rest, k + 1, Len(rest))

\* sep.join(parts)
RECURSIVE Join(_, _)
Join(sep, parts) ==
    IF Len(parts) = 0 THEN ""
    ELSE IF Len(parts) = 1 THEN parts[1]
    ELSE parts[1] \o sep \o Join(sep, Tail(parts))

HexDigitsUpper == "0123456789ABCDEF"
HexDigitsLower == "0123456789abcdef"

\* The characters quote() never encodes: letters, digits and "_.-~".
IsUnreserved(c) == IsAlphaChar(c) \/ IsDigitChar(c) \/ c \in {"_", ".", "-", "~"}

\* urllib.parse.quote(s, safe=''): every other character becomes %XX.
RECURSIVE quote(_)
quote(s) ==
    IF Len(s) = 0 THEN ""
    ELSE IF Len(s) = 1
    THEN IF IsUnreserved(s) THEN s
         ELSE "%" \o CharAt(HexDigitsUpper, (Ord(s) \div 16) + 1)
                  \o CharAt(HexDigitsUpper, (Ord(s) % 16) + 1)
    ELSE LET m == Len(s) \div 2
         IN  quote(SubSeq(s, 1, m)) \o quote(SubSeq(s, m + 1, Len(s)))

TwoDigits(n) == Chr(48 + (n \div 10)) \o Chr(48 + (n % 10))

\* A datetime is its number of seconds since 2026-01-01T00:00:00Z, within
\* January 2026.  timestamp.strftime("%Y%m%d")
Datestamp(t) == "202601" \o TwoDigits(1 + (t \div 86400))

\* timestamp.strftime("%Y%m%dT%H%M%SZ")
AmzDate(t) ==
    Datestamp(t) \o "T" \o TwoDigits((t % 86400) \div 3600)
                 \o TwoDigits((t % 3600) \div 60) \o TwoDigits(t % 60) \o "Z"

\* The digest stand-in: a sum over the characters weighted by position.
RECURSIVE DigestSum(_, _, _)
DigestSum(s, lo, hi) ==
    IF lo > hi THEN 0
    ELSE IF lo = hi THEN (Ord(CharAt(s, lo)) * (1 + ((lo * 7919) % 4093))) % 16777216
    ELSE LET m == (lo + hi) \div 2
         IN  (DigestSum(s, lo, m) + DigestSum(s, m + 1, hi)) % 16777216

RECURSIVE HexOf(_, _)
HexOf(n, width) ==
    IF width = 0 THEN ""
    ELSE HexOf(n \div 16, width - 1) \o CharAt(HexDigitsLower, (n % 16) + 1)

\* hashlib.sha256(data).hexdigest()
Sha256Hex(data) == HexOf((DigestSum(data, 1, Len(data)) + 40503 * Len(data)) % 16777216, 6)

\* hmac.new(key, msg, hashlib.sha256).hexdigest(); .digest() is the same value as bytes.
HmacSha256(key, msg) == Sha256Hex("k" \o key \o "m" \o msg)

(***************************************************************************)
(* AwsSignatureV4Signer (_signer.py).  self is [access_key, secret_key].   *)
(* An Optional argument is <<>> for None and <<v>> for a value v.          *)
(* Every operation yields a record: kind "return" with its value, or kind  *)
(* "raise" with the exception; fx counts the hashing and the clock reads   *)
(* it performed.                                                           *)
(***************************************************************************)

NoFx == [hmac |-> 0, sha |-> 0, clock |-> 0]

\* A raised exception: its Python type, its message, and the name the
\* specification's error taxonomy gives it.
Raise(type, code, message, fx) ==
    [kind |-> "raise", exc |-> [type |-> type, code |-> code, message |-> message],
     fx |-> fx]

ExpiryMessage ==
    "Expiry must be between 1 second and 604800 seconds (7 days) per AWS S3 specification."

\* A signer that reads the clock whatever the caller passed.
ResolveTimestamp_always_now(timestamp, clock) == [t |-> clock, reads |-> 1]

\* _signer.py 36-37 and 153-154: the clock is read only when no timestamp is given.
ResolveTimestamp(timestamp, clock) ==
    IF timestamp = <<>> THEN [t |-> clock, reads |-> 1]
    ELSE [t |-> timestamp[1], reads |-> 0]

\* _signer.py 146
ResolveExpiry(expires_in, expires_in_seconds) ==
    IF expires_in_seconds # <<>> THEN expires_in_seconds[1] ELSE expires_in

\* A signer that forgets the lower limit.
ExpiryOutOfRange_no_lower_limit(expiry) == expiry > 604800

\* _signer.py 148
ExpiryOutOfRange(expiry) == expiry < 1 \/ expiry > 604800

RECURSIVE CanonicalHeadersFrom(_, _)
CanonicalHeadersFrom(canonical, headers) ==
    IF Len(headers) = 0 THEN canonical
    ELSE CanonicalHeadersFrom(
            DictSet(canonical, StrLower(headers[1][1]), Strip(headers[1][2])),
            Tail(headers))

_build_canonical_headers(headers) == CanonicalHeadersFrom(<<>>, headers)

\* A canonical query string in insertion order.
_build_canonical_querystring_unsorted(params) ==
    IF Len(params) = 0 THEN ""
    ELSE Join("&", [i \in 1..Len(params) |->
                      quote(params[i][1]) \o "=" \o quote(params[i][2])])

_build_canonical_querystring(params) ==
    IF Len(params) = 0 THEN ""
    ELSE LET sorted_params == SortedItems(params)
         IN  Join("&", [i \in 1..Len(sorted_params) |->
                          quote(sorted_params[i][1]) \o "=" \o quote(sorted_params[i][2])])

_hash_payload(body) ==
    IF body = <<>> THEN Sha256Hex("") ELSE Sha256Hex(body[1])

_derive_signing_key(self, datestamp) ==
    LET k_date == HmacSha256("AWS4" \o self.secret_key, datestamp)
        k_region == HmacSha256(k_date, "us-east-1")
        k_service == HmacSha256(k_region, "s3")
        k_signing == HmacSha256(k_service, "aws4_request")
    IN  k_signing

sign_request(self, method, host, path, query_params, headers, body, timestamp, clock) ==
    LET ts == ResolveTimestamp(timestamp, clock)
        amz_date == AmzDate(ts.t)
        datestamp == Datestamp(ts.t)
        canonical_headers_dict == _build_canonical_headers(headers)
        sorted_headers == SortedItems(canonical_headers_dict)
        canonical_headers_str ==
            Join("\n", [i \in 1..Len(sorted_headers) |->
                          sorted_headers[i][1] \o ":" \o sorted_headers[i][2]]) \o "\n"
        signed_headers == Join(";", [i \in 1..Len(sorted_headers) |-> sorted_headers[i][1]])
        canonical_querystring == _build_canonical_querystring(query_params)
        payload_hash == _hash_payload(body)
        canonical_request ==
            Join("\n", <<method, path, canonical_querystring,
                         RStrip(canonical_headers_str, Whitespace), "",
                         signed_headers, payload_hash>>)
        credential_scope == datestamp \o "/us-east-1/s3/aws4_request"
        canonical_request_hash == Sha256Hex(canonical_request)
        string_to_sign ==
            Join("\n", <<"AWS4-HMAC-SHA256", amz_date, credential_scope,
                         canonical_request_hash>>)
        signing_key == _derive_signing_key(self, datestamp)
        signature == HmacSha256(signing_key, string_to_sign)
        auth_header ==
            "AWS4-HMAC-SHA256 Credential=" \o self.access_key \o "/" \o credential_scope
                \o ", " \o "SignedHeaders=" \o signed_headers
                \o ", Signature=" \o signature
    IN  [kind |-> "return",
         value |-> <<<<"Authorization", auth_header>>, <<"X-Amz-Date", amz_date>>>>,
         canonical_request |-> canonical_request,
         signed_headers |-> signed_headers,
         signature |-> signature,
         fx |-> [hmac |-> 5, sha |-> 2, clock |-> ts.reads]]

generate_presigned_url(self, method, host, path, query_params, expires_in, expires_in_seconds, use_https, timestamp, clock) ==
    LET expiry == ResolveExpiry(expires_in, expires_in_seconds)
    IN  IF ExpiryOutOfRange(expiry) THEN Raise("ValueError", "InvalidExpiry", ExpiryMessage, NoFx)
        ELSE
        LET ts == ResolveTimestamp(timestamp, clock)
            amz_date == AmzDate(ts.t)
            datestamp == Datestamp(ts.t)
            credential_scope == datestamp \o "/us-east-1/s3/aws4_request"
            base_params ==
                <<<<"X-Amz-Algorithm", "AWS4-HMAC-SHA256">>,
                  <<"X-Amz-Credential", self.access_key \o "/" \o credential_scope>>,
                  <<"X-Amz-Date", amz_date>>,
                  <<"X-Amz-Expires", IntToStr(expiry)>>,
                  <<"X-Amz-SignedHeaders", "host">>>>
            presigned_params ==
                IF Len(query_params) > 0 THEN DictUpdate(base_params, query_params)
                ELSE base_params
            canonical_querystring == _build_canonical_querystring(presigned_params)
            payload_hash == _hash_payload(<<>>)
            canonical_request ==
                Join("\n", <<method, path, canonical_querystring, "host:" \o host, "",
                             "host", payload_hash>>)
            canonical_request_hash == Sha256Hex(canonical_request)
            string_to_sign ==
                Join("\n", <<"AWS4-HMAC-SHA256", amz_date, credential_scope,
                             canonical_request_hash>>)
            signing_key == _derive_signing_key(self, datestamp)
            signature == HmacSha256(signing_key, string_to_sign)
            final_params == DictSet(presigned_params, "X-Amz-Signature", signature)
            scheme == IF use_https THEN "https" ELSE "http"
            url == scheme \o "://" \o host \o path
            query_string == _build_canonical_querystring(final_params)
        IN  [kind |-> "return",
             value |-> url \o "?" \o query_string,
             canonical_request |-> canonical_request,
             signed_query |-> canonical_querystring,
             signature |-> signature,
             fx |-> [hmac |-> 5, sha |-> 2, clock |-> ts.reads]]

(***************************************************************************)
(* urllib.parse.urlparse, as far as the client uses it: scheme, netloc and *)
(* hostname.  ok is FALSE when urlparse raises ValueError (a netloc with   *)
(* one square bracket but not the other).                                  *)
(***************************************************************************)

\* str.replace(c, "") for each character c of chars.
RECURSIVE RemoveChars(_, _)
RemoveChars(s, chars) ==
    IF Len(s) = 0 THEN ""
    ELSE IF Len(s) = 1 THEN (IF s \in chars THEN "" ELSE s)
    ELSE LET m == Len(s) \div 2
         IN  RemoveChars(SubSeq(s, 1, m), chars) \o RemoveChars(SubSeq(s, m + 1, Len(s)), chars)

\* str.lstrip(chars)
LStrip(s, chars) ==
    LET keep == {i \in 1..Len(s) : CharAt(s, i) \notin chars}
    IN  IF keep = {} THEN "" ELSE SubSeq(s, Min(keep), Len(s))

IsSchemeChar(c) == IsAlphaChar(c) \/ IsDigitChar(c) \/ c \in {"+", "-", "."}

\* What follows the scheme: "//" introduces the netloc, which ends at the first
\* of "/", "?" and "#".
UrlAfterScheme(scheme, url1) ==
    LET has_netloc == StartsWith(url1, "//")
        after == SubSeq(url1, 3, Len(url1))
        delim == FindFirst(after, {"/", "?", "#"})
        netloc == IF ~has_netloc THEN ""
                  ELSE IF delim = 0 THEN after ELSE SubSeq(after, 1, delim - 1)
        rest == IF ~has_netloc THEN url1
                ELSE IF delim = 0 THEN "" ELSE SubSeq(after, delim, Len(after))
    IN  [ok |-> ((FindFirst(netloc, {"["}) > 0) <=> (FindFirst(netloc, {"]"}) > 0)),
         scheme |-> scheme, netloc |-> netloc, rest |-> rest]

\* The scheme is what precedes the first ":" when it is a letter followed by
\* letters, digits, "+", "-" and "."; it is lowercased.
UrlFromCleaned(url0) ==
    LET i == FindFirst(url0, {":"})
        has_scheme ==
            /\ i > 1
            /\ IsAlphaChar(CharAt(url0, 1))
            /\ \A j \in 1..(i - 1) : IsSchemeChar(CharAt(url0, j))
    IN  IF has_scheme
        THEN UrlAfterScheme(StrLower(SubSeq(url0, 1, i - 1)), SubSeq(url0, i + 1, Len(url0)))
        ELSE UrlAfterScheme("", url0)

urlparse(text) == UrlFromCleaned(RemoveChars(LStrip(text, Whitespace), {"\t", "\r", "\n"}))

\* ParseResult.hostname; "" stands for None.
hostname(netloc) ==
    LET at == FindLast(netloc, {"@"})
        hostinfo == SubSeq(netloc, at + 1, Len(netloc))
        br == FindFirst(hostinfo, {"["})
        bracketed == SubSeq(hostinfo, br + 1, Len(hostinfo))
        closing == FindFirst(bracketed, {"]"})
        colon == FindFirst(hostinfo, {":"})
        name == IF br > 0
                THEN (IF closing = 0 THEN bracketed ELSE SubSeq(bracketed, 1, closing - 1))
                ELSE (IF colon = 0 THEN hostinfo ELSE SubSeq(hostinfo, 1, colon - 1))
        pct == FindFirst(name, {"%"})
    IN  IF pct = 0 THEN StrLower(name)
        ELSE StrLower(SubSeq(name, 1, pct - 1)) \o SubSeq(name, pct, Len(name))

(***************************************************************************)
(* OmnixClient (client.py): construction and the presigned-URL flow.       *)
(* self is the record __init__ builds; the session token is kept apart.    *)
(***************************************************************************)

_to_base_url(endpoint, use_ssl) ==
    IF StartsWith(endpoint, "http://") \/ StartsWith(endpoint, "https://")
    THEN RStrip(endpoint, {"/"})
    ELSE RStrip((IF use_ssl THEN "https" ELSE "http") \o "://" \o endpoint, {"/"})

\* OmnixClient.__init__; public_endpoint is <<>> or <<text>>, and "" counts as unset.
NewClient(endpoint, public_endpoint, username, password, access_key, secret_key, use_ssl, request_timeout, max_retries) ==
    [endpoint |-> endpoint,
     username |-> username,
     password |-> password,
     access_key |-> access_key,
     secret_key |-> secret_key,
     use_ssl |-> use_ssl,
     base_url |-> (IF use_ssl THEN "https" ELSE "http") \o "://" \o endpoint,
     public_endpoint |-> public_endpoint,
     public_base_url |->
        IF public_endpoint # <<>> /\ public_endpoint[1] # ""
        THEN <<_to_base_url(public_endpoint[1], use_ssl)>> ELSE <<>>,
     timeout |-> request_timeout,
     max_retries |-> max_retries]

_validate_expiry(expires_in_seconds) ==
    expires_in_seconds < 1 \/ expires_in_seconds > 604800

BrowserWarning ==
    "browser_accessible=True but public_endpoint is not configured. Returned URL may use an internal endpoint and fail in browser access."

\* A client that signs against its public endpoint whenever it has one.
_effective_presigned_base_url_public_always(self, browser_accessible) ==
    IF self.public_base_url # <<>>
    THEN [url |-> self.public_base_url[1], warnings |-> <<>>]
    ELSE [url |-> self.base_url,
          warnings |-> IF browser_accessible THEN <<BrowserWarning>> ELSE <<>>]

\* A client that always signs against its internal endpoint.
_effective_presigned_base_url_internal(self, browser_accessible) ==
    [url |-> self.base_url,
     warnings |-> IF browser_accessible /\ self.public_base_url = <<>>
                  THEN <<BrowserWarning>> ELSE <<>>]

\* A client for which the warning is fatal: it signs against nothing.
_effective_presigned_base_url_fatal(self, browser_accessible) ==
    IF browser_accessible /\ self.public_base_url = <<>>
    THEN [url |-> "", warnings |-> <<BrowserWarning>>]
    ELSE [url |-> IF browser_accessible THEN self.public_base_url[1] ELSE self.base_url,
          warnings |-> <<>>]

\* The base URL to sign against and the warnings emitted on the way.
_effective_presigned_base_url(self, browser_accessible) ==
    IF browser_accessible /\ self.public_base_url # <<>>
    THEN [url |-> self.public_base_url[1], warnings |-> <<>>]
    ELSE IF browser_accessible /\ self.public_base_url = <<>>
    THEN [url |-> self.base_url, warnings |-> <<BrowserWarning>>]
    ELSE [url |-> self.base_url, warnings |-> <<>>]

\* A comparison that sets the host against itself.
HostMismatch_self_compared(host, public_host) ==
    public_host # "" /\ StrLower(host) # StrLower(host)

\* client.py 168: the hosts are compared only when a public host is known.
HostMismatch(host, public_host) ==
    public_host # "" /\ StrLower(host) # StrLower(public_host)

\* A guardrail that compares the host with the internal endpoint's.
_validate_and_log_presigned_url_against_internal(self, url, expires_in_seconds, bucket_name, object_name) ==
    LET Rejected(code, message) ==
            [ok |-> FALSE, code |-> code, message |-> message, log |-> <<>>]
        InternalHost == hostname(urlparse(self.base_url).netloc)
        ForHost(host) ==
            IF _is_internal_host(host)
            THEN Rejected("RejectedInternalHost",
                          "Rejected presigned URL generation because host '" \o host
                          \o "' appears internal. Configure public_endpoint for browser-accessible URLs.")
            ELSE IF self.public_base_url # <<>> /\ HostMismatch(host, InternalHost)
            THEN Rejected("RejectedHostMismatch",
                          "Rejected presigned URL generation because host '" \o host
                          \o "' does not match configured public host '" \o InternalHost \o "'.")
            ELSE [ok |-> TRUE, url |-> url,
                  log |-> <<[host |-> host,
                             configuredPublicHost |->
                                IF self.public_base_url # <<>> THEN InternalHost ELSE "",
                             expirySeconds |-> expires_in_seconds, bucket |-> bucket_name,
                             object |-> object_name]>>]
        ForParsed(parsed) ==
            IF ~parsed.ok THEN Rejected("InvalidIPv6", "Invalid IPv6 URL")
            ELSE IF parsed.scheme = "" \/ parsed.netloc = ""
            THEN Rejected("InvalidUrl", "Generated presigned URL is not a valid absolute URL.")
            ELSE ForHost(hostname(parsed.netloc))
    IN  ForParsed(urlparse(url))

\* A guardrail that writes its audit record before it judges the host.
_validate_and_log_presigned_url_logs_first(self, url, expires_in_seconds, bucket_name, object_name) ==
    LET Record(host) ==
            <<[host |-> host, configuredPublicHost |-> "",
               expirySeconds |-> expires_in_seconds, bucket |-> bucket_name,
               object |-> object_name]>>
        Rejected(code, message, log) ==
            [ok |-> FALSE, code |-> code, message |-> message, log |-> log]
        AgainstPublicHost(host, public_host) ==
            IF HostMismatch(host, public_host)
            THEN Rejected("RejectedHostMismatch",
                          "Rejected presigned URL generation because host '" \o host
                          \o "' does not match configured public host '" \o public_host \o "'.",
                          Record(host))
            ELSE [ok |-> TRUE, url |-> url, log |-> Record(host)]
        ForHost(host) ==
            IF _is_internal_host(host)
            THEN Rejected("RejectedInternalHost",
                          "Rejected presigned URL generation because host '" \o host
                          \o "' appears internal. Configure public_endpoint for browser-accessible URLs.",
                          Record(host))
            ELSE IF self.public_base_url # <<>> /\ urlparse(self.public_base_url[1]).ok
            THEN AgainstPublicHost(host, hostname(urlparse(self.public_base_url[1]).netloc))
            ELSE [ok |-> TRUE, url |-> url, log |-> Record(host)]
        ForParsed(parsed) ==
            IF ~parsed.ok THEN Rejected("InvalidIPv6", "Invalid IPv6 URL", <<>>)
            ELSE IF parsed.scheme = "" \/ parsed.netloc = ""
            THEN Rejected("InvalidUrl", "Generated presigned URL is not a valid absolute URL.",
                          <<>>)
            ELSE ForHost(hostname(parsed.netloc))
    IN  ForParsed(urlparse(url))

\* A guardrail that compares with the public host before it looks for an
\* internal host.
_validate_and_log_presigned_url_mismatch_first(self, url, expires_in_seconds, bucket_name, object_name) ==
    LET Rejected(code, message) ==
            [ok |-> FALSE, code |-> code, message |-> message, log |-> <<>>]
        PublicHost ==
            IF self.public_base_url # <<>> /\ urlparse(self.public_base_url[1]).ok
            THEN hostname(urlparse(self.public_base_url[1]).netloc) ELSE ""
        ForHost(host) ==
            IF HostMismatch(host, PublicHost)
            THEN Rejected("RejectedHostMismatch",
                          "Rejected presigned URL generation because host '" \o host
                          \o "' does not match configured public host '" \o PublicHost \o "'.")
            ELSE IF _is_internal_host(host)
            THEN Rejected("RejectedInternalHost",
                          "Rejected presigned URL generation because host '" \o host
                          \o "' appears internal. Configure public_endpoint for browser-accessible URLs.")
            ELSE [ok |-> TRUE, url |-> url,
                  log |-> <<[host |-> host, configuredPublicHost |-> PublicHost,
                             expirySeconds |-> expires_in_seconds, bucket |-> bucket_name,
                             object |-> object_name]>>]
        ForParsed(parsed) ==
            IF ~parsed.ok THEN Rejected("InvalidIPv6", "Invalid IPv6 URL")
            ELSE IF parsed.scheme = "" \/ parsed.netloc = ""
            THEN Rejected("InvalidUrl", "Generated presigned URL is not a valid absolute URL.")
            ELSE ForHost(hostname(parsed.netloc))
    IN  ForParsed(urlparse(url))

\* A guardrail that lets everything through and logs nothing.
_validate_and_log_presigned_url_skipped(self, url, expires_in_seconds, bucket_name, object_name) ==
    [ok |-> TRUE, url |-> url, log |-> <<>>]

\* The guardrail: its verdict (ok, or the error raised) and the records it logged.
_validate_and_log_presigned_url(self, url, expires_in_seconds, bucket_name, object_name) ==
    LET Rejected(code, message) ==
            [ok |-> FALSE, code |-> code, message |-> message, log |-> <<>>]
        Logged(host, public_host) ==
            [ok |-> TRUE, url |-> url,
             log |-> <<[host |-> host, configuredPublicHost |-> public_host,
                        expirySeconds |-> expires_in_seconds, bucket |-> bucket_name,
                        object |-> object_name]>>]
        \* client.py 167-171
        AgainstPublicHost(host, public_host) ==
            IF HostMismatch(host, public_host)
            THEN Rejected("RejectedHostMismatch",
                          "Rejected presigned URL generation because host '" \o host
                          \o "' does not match configured public host '" \o public_host \o "'.")
            ELSE Logged(host, public_host)
        AgainstPublicUrl(host, public_parsed) ==
            IF ~public_parsed.ok THEN Rejected("InvalidIPv6", "Invalid IPv6 URL")
            ELSE AgainstPublicHost(host, hostname(public_parsed.netloc))
        \* client.py 159-173
        ForHost(host) ==
            IF _is_internal_host(host)
            THEN Rejected("RejectedInternalHost",
                          "Rejected presigned URL generation because host '" \o host
                          \o "' appears internal. Configure public_endpoint for browser-accessible URLs.")
            ELSE IF self.public_base_url # <<>>
            THEN AgainstPublicUrl(host, urlparse(self.public_base_url[1]))
            ELSE Logged(host, "")
        \* client.py 155-158
        ForParsed(parsed) ==
            IF ~parsed.ok THEN Rejected("InvalidIPv6", "Invalid IPv6 URL")
            ELSE IF parsed.scheme = "" \/ parsed.netloc = ""
            THEN Rejected("InvalidUrl", "Generated presigned URL is not a valid absolute URL.")
            ELSE ForHost(hostname(parsed.netloc))
    IN  ForParsed(urlparse(url))

\* The effects of a client operation: the signer's, the warnings, the audit log
\* records and the transport requests issued.
ClientFx(signer_fx, clock, warnings, log) ==
    [hmac |-> signer_fx.hmac, sha |-> signer_fx.sha, clock |-> signer_fx.clock + clock,
     warnings |-> warnings, log |-> log, requests |-> 0]

\* presigned_get_object and presigned_put_object share everything but the method
\* and the query parameters.
PresignedObject(self, _signer, method, query_params, bucket_name, object_name, expires_in_seconds, browser_accessible, clock) ==
    LET Failed(code, message, warnings) ==
            Raise("ValueError", code, message, ClientFx(NoFx, 0, warnings, <<>>))
        \* the guardrail's verdict decides; expires_at reads the clock
        Finished(signed, checked, warnings) ==
            IF ~checked.ok
            THEN Raise("ValueError", checked.code, checked.message,
                       ClientFx(signed.fx, 0, warnings, checked.log))
            ELSE [kind |-> "return",
                  value |-> [url |-> checked.url, expires_at |-> clock + expires_in_seconds],
                  canonical_request |-> signed.canonical_request,
                  signed_query |-> signed.signed_query,
                  signature |-> signed.signature,
                  fx |-> ClientFx(signed.fx, 1, warnings, checked.log)]
        Guarded(signed, warnings) ==
            IF signed.kind = "raise"
            THEN [signed EXCEPT !.fx = ClientFx(signed.fx, 0, warnings, <<>>)]
            ELSE Finished(signed,
                          IF browser_accessible
                          THEN _validate_and_log_presigned_url(
                                   self, signed.value, expires_in_seconds,
                                   bucket_name, object_name)
                          ELSE [ok |-> TRUE, url |-> signed.value, log |-> <<>>],
                          warnings)
        SignedFor(parsed_base, warnings) ==
            IF ~parsed_base.ok THEN Failed("InvalidIPv6", "Invalid IPv6 URL", warnings)
            ELSE IF parsed_base.netloc = ""
            THEN Failed("InvalidEndpoint",
                        "Invalid endpoint configuration for presigned URL generation.",
                        warnings)
            ELSE Guarded(generate_presigned_url(
                             _signer, method, parsed_base.netloc,
                             "/" \o bucket_name \o "/" \o quote(object_name),
                             query_params, 3600, <<expires_in_seconds>>,
                             StrLower(parsed_base.scheme) = "https", <<>>, clock),
                         warnings)
        Based(base) == SignedFor(urlparse(base.url), base.warnings)
    IN  IF _validate_expiry(expires_in_seconds)
        THEN Failed("InvalidExpiry", ExpiryMessage, <<>>)
        ELSE Based(_effective_presigned_base_url(self, browser_accessible))

presigned_get_object(self, _signer, bucket_name, object_name, expires_in_seconds, browser_accessible, clock) ==
    PresignedObject(self, _signer, "GET", <<>>, bucket_name, object_name,
                    expires_in_seconds, browser_accessible, clock)

presigned_put_object(self, _signer, bucket_name, object_name, expires_in_seconds, content_type, browser_accessible, clock) ==
    PresignedObject(self, _signer, "PUT",
                    IF content_type # <<>> /\ content_type[1] # ""
                    THEN <<<<"content-type", content_type[1]>>>> ELSE <<>>,
                    bucket_name, object_name, expires_in_seconds, browser_accessible, clock)

(***************************************************************************)
(* The classifier on its own: every input is drawn at the start and the    *)
(* classifier is applied to it.                                            *)
(***************************************************************************)

\* The coroutines that may call into one client concurrently.
Tasks == {"A", "B"}

IdleTask ==
    [pc |-> "idle", attempt |-> 0, began |-> 0, began_at |-> 0, cache_seen |-> <<>>,
     stores_seen |-> 0, logins |-> 0, slept |-> 0]

ZeroCounters == [requests |-> 0, issued |-> 0, stores |-> 0, seq |-> 0]

\* No coroutine is running and none has run.
NoCoroutines ==
    /\ tasks = [t \in Tasks |-> IdleTask]
    /\ history = <<>>
    /\ counters = ZeroCounters

\* The hosts the specification names, and their neighbours.
NamedInternalHosts ==
    {"127.0.0.1", "localhost", "10.1.2.3", "192.168.0.5", "172.20.0.1",
     "foo.local", "foo.internal"}

NamedPublicHosts == {"storage-public.example.com"}

OtherHosts ==
    {"::1", "127.0.0.2", "172.15.0.1", "172.16.0.1", "172.31.255.1", "172.32.0.1",
     "11.0.0.1", "10.example.com", "172.20.example.com", "172.example.com",
     "local", "example.internal.com", ""}

BaseHosts == NamedInternalHosts \cup NamedPublicHosts \cup OtherHosts

\* Letter-case and surrounding-whitespace variants of a host.
HostVariants(h) ==
    {pre \o g \o post : g \in {h, StrUpper(h)},
                        pre \in {"", " ", "\t"}, post \in {"", " ", "\n"}}

HostInputs == UNION {HostVariants(h) : h \in BaseHosts}

Pending == [kind |-> "pending"]

\* The credentials of tests/test_presigned_parity.py.
TestSigner == [access_key |-> "AKIAXXX", secret_key |-> "SECRET"]

\* A client built with the defaults of __init__ but for the credentials.
ClientWith(endpoint, public_endpoint, use_ssl, max_retries) ==
    NewClient(endpoint, public_endpoint, "admin", "omnix-console-2026",
              TestSigner.access_key, TestSigner.secret_key, use_ssl, 30, max_retries)

DefaultClient == ClientWith("localhost:9000", <<>>, FALSE, 3)

InitHost ==
    /\ now = 0
    /\ call \in {[op |-> "_is_internal_host", host |-> h] : h \in HostInputs}
    /\ result = Pending
    /\ earlier = <<>>
    /\ signer = TestSigner
    /\ client = DefaultClient
    /\ jwt_token = <<>>
    /\ token_expires_at = <<>>
    /\ NoCoroutines

ClassifyHost ==
    /\ call.op = "_is_internal_host"
    /\ result = Pending
    /\ result' = [kind |-> "return", value |-> _is_internal_host(call.host)]
    /\ UNCHANGED <<now, call, earlier, objVars>>

NextHost == ClassifyHost

SpecHost == InitHost /\ [][NextHost]_vars


(***************************************************************************)
(* The signer on its own: a call is drawn at the start, run, and may be    *)
(* run again with the same arguments while the clock advances.             *)
(***************************************************************************)

\* The clock stops advancing here.
MaxClock == 2

\* The timestamps callers pass: None, and two instants on different days.
Timestamps == {<<>>, <<59>>, <<90061>>}

\* Caller-supplied query parameters: none, one, two in either order, a key the
\* signer itself sets, the signature key, and text that looks like parameters.
QueryParamChoices ==
    {<<>>,
     <<<<"content-type", "image/jpeg">>>>,
     <<<<"prefix", "a b">>, <<"Marker", "x/y">>>>,
     <<<<"Marker", "x/y">>, <<"prefix", "a b">>>>,
     <<<<"X-Amz-Expires", "999999">>>>,
     <<<<"X-Amz-Signature", "forged">>>>,
     <<<<"k&X-Amz-Date", "1&X-Amz-Algorithm=none">>>>}

ExpiryChoices == {-1, 0, 1, 3600, 604800, 604801}

\* Header maps that differ in key case, value padding and insertion order.
HeaderChoices ==
    {<<>>,
     <<<<"host", "storage-public.example.com">>, <<"x-amz-date", "20260101T000059Z">>>>,
     <<<<"X-Amz-Date", " 20260101T000059Z ">>, <<"Host", "storage-public.example.com">>>>,
     <<<<"Host", "other.example.com">>>>}

GeneratePresignedUrlCalls ==
    {[op |-> "generate_presigned_url", method |-> m, host |-> "storage-public.example.com",
      path |-> "/bucket/obj.jpg", query_params |-> q, expires_in |-> 3600,
      expires_in_seconds |-> <<e>>, use_https |-> h, timestamp |-> t] :
        m \in {"GET", "PUT"}, q \in QueryParamChoices, e \in {1, 3600},
        h \in BOOLEAN, t \in Timestamps}
    \cup
    {[op |-> "generate_presigned_url", method |-> "GET", host |-> "storage-public.example.com",
      path |-> "/photo-test/images%2Ftest.jpg", query_params |-> <<>>, expires_in |-> e1,
      expires_in_seconds |-> e2, use_https |-> TRUE, timestamp |-> t] :
        e1 \in ExpiryChoices, e2 \in {<<>>} \cup {<<e>> : e \in ExpiryChoices},
        t \in {<<>>, <<59>>}}

SignRequestCalls ==
    {[op |-> "sign_request", method |-> "GET", host |-> "storage-public.example.com",
      path |-> "/bucket/obj.jpg", query_params |-> q, headers |-> hd, body |-> b,
      timestamp |-> t] :
        q \in {<<>>, <<<<"prefix", "a b">>, <<"Marker", "x/y">>>>,
               <<<<"Marker", "x/y">>, <<"prefix", "a b">>>>},
        hd \in HeaderChoices, b \in {<<>>, <<"hello">>}, t \in Timestamps}

InitSigner ==
    /\ now = 0
    /\ call \in GeneratePresignedUrlCalls \cup SignRequestCalls
    /\ result = Pending
    /\ earlier = <<>>
    /\ signer = TestSigner
    /\ client = DefaultClient
    /\ jwt_token = <<>>
    /\ token_expires_at = <<>>
    /\ NoCoroutines

\* Time passes.
Tick ==
    /\ now < MaxClock
    /\ now' = now + 1
    /\ UNCHANGED <<call, result, earlier, objVars>>

RunSignRequest ==
    /\ call.op = "sign_request"
    /\ result = Pending
    /\ result' = sign_request(signer, call.method, call.host, call.path,
                              call.query_params, call.headers, call.body,
                              call.timestamp, now)
    /\ UNCHANGED <<now, call, earlier, objVars>>

RunGeneratePresignedUrl ==
    /\ call.op = "generate_presigned_url"
    /\ result = Pending
    /\ result' = generate_presigned_url(signer, call.method, call.host, call.path,
                                        call.query_params, call.expires_in,
                                        call.expires_in_seconds, call.use_https,
                                        call.timestamp, now)
    /\ UNCHANGED <<now, call, earlier, objVars>>

\* The caller makes the same call once more.
CallAgain ==
    /\ call.op \in {"sign_request", "generate_presigned_url"}
    /\ result # Pending
    /\ earlier = <<>>
    /\ earlier' = <<result>>
    /\ result' = Pending
    /\ UNCHANGED <<now, call, objVars>>

NextSigner == Tick \/ RunSignRequest \/ RunGeneratePresignedUrl \/ CallAgain

SpecSigner == InitSigner /\ [][NextSigner]_vars

(***************************************************************************)
(* The presigned-URL flow of a client: the client is built and a call is   *)
(* drawn at the start; the call is then run.                               *)
(***************************************************************************)

InternalEndpointChoices == {"storage.example.com:443", "localhost:9000"}

PublicEndpointChoices ==
    {<<>>,
     <<"https://storage-public.example.com">>,
     <<"Storage-Public.Example.COM:8443">>,
     <<"http://127.0.0.1:9000">>,
     <<"http://127.0.0.2:9000">>,
     <<"http://[::1]:9000">>,
     <<"http://localhost">>,
     <<"https://foo.local/">>,
     <<"https://FOO.INTERNAL">>,
     <<"http://10.1.2.3">>,
     <<"http://192.168.0.5:80">>,
     <<"http://172.20.0.1">>,
     <<"http://172.32.0.1">>,
     <<"http://:9000">>}

\* Endpoints the constructor accepts as they are and that leave the base URL
\* without a host ("http://") or with a host urlparse refuses ("http://[::1").
HostlessEndpointChoices == {"", "[::1"}

HostlessPublicEndpointChoices == {<<"https://">>, <<"http://[::1">>}

PresignClients ==
    {ClientWith(e, p, ssl, 3) :
        e \in InternalEndpointChoices, p \in PublicEndpointChoices, ssl \in BOOLEAN}
    \cup
    {ClientWith(e, p, FALSE, 3) :
        e \in HostlessEndpointChoices, p \in {<<>>, <<"https://storage-public.example.com">>}}
    \cup
    {ClientWith("storage.example.com:443", p, FALSE, 3) : p \in HostlessPublicEndpointChoices}

PresignCalls ==
    {[op |-> "presigned_get_object", bucket_name |-> "photo-test",
      object_name |-> "images/test.jpg", expires_in_seconds |-> e,
      browser_accessible |-> b] :
        e \in {0, 3600, 604801}, b \in BOOLEAN}
    \cup
    {[op |-> "presigned_put_object", bucket_name |-> "photo-test",
      object_name |-> "uploads/test.bin", expires_in_seconds |-> e,
      content_type |-> ct, browser_accessible |-> b] :
        e \in {-1, 1800, 604801}, ct \in {<<>>, <<"image/jpeg">>}, b \in BOOLEAN}
    \cup
    \* bucket and object names that look like parts of a URL; the bucket name
    \* enters the path as it is (client.py 675)
    {[op |-> "presigned_get_object", bucket_name |-> n[1], object_name |-> n[2],
      expires_in_seconds |-> 3600, browser_accessible |-> TRUE] :
        n \in {<<"@other.example.com", "a b#c?d">>, <<"", "//other.example.com/x">>}}

\* URLs handed to the guardrail directly.
GuardrailCalls ==
    {[op |-> "_validate_and_log_presigned_url", url |-> u, expires_in_seconds |-> 3600,
      bucket_name |-> "photo-test", object_name |-> "images/test.jpg"] :
        u \in {"https://storage-public.example.com/photo-test/images%2Ftest.jpg?X-Amz-Signature=abc123",
               "https://STORAGE-PUBLIC.EXAMPLE.COM/photo-test/images%2Ftest.jpg?X-Amz-Signature=abc123",
               "https://other.example.com/photo-test/images%2Ftest.jpg?X-Amz-Signature=abc123",
               "http://localhost:9000/photo-test/images%2Ftest.jpg?X-Amz-Signature=abc123",
               "/photo-test/images%2Ftest.jpg?X-Amz-Signature=abc123"}}

\* The signer called directly with each expiry, in either keyword.
ExpirySweepCalls ==
    {c \in GeneratePresignedUrlCalls : c.path = "/photo-test/images%2Ftest.jpg"}

\* The session cache is empty, or holds the pair a login at instant 0 left,
\* which is still valid at instant 0 and has expired at 86399.
InitPresign ==
    /\ now \in {0, 86399}
    /\ \/ client \in PresignClients /\ call \in PresignCalls \cup GuardrailCalls
       \/ client = DefaultClient /\ call \in ExpirySweepCalls
    /\ result = Pending
    /\ earlier = <<>>
    /\ signer = [access_key |-> client.access_key, secret_key |-> client.secret_key]
    /\ \E cached \in BOOLEAN :
          /\ jwt_token = IF cached THEN <<"t0">> ELSE <<>>
          /\ token_expires_at = IF cached THEN <<7 * 3600>> ELSE <<>>
    /\ NoCoroutines

RunPresignedGetObject ==
    /\ call.op = "presigned_get_object"
    /\ result = Pending
    /\ result' = presigned_get_object(client, signer, call.bucket_name, call.object_name,
                                      call.expires_in_seconds, call.browser_accessible, now)
    /\ UNCHANGED <<now, call, earlier, objVars>>

\* A presigned_put_object that logs in when the session token has expired.
RunPresignedPutObject_logs_in ==
    /\ call.op = "presigned_put_object"
    /\ result = Pending
    /\ result' = presigned_put_object(client, signer, call.bucket_name, call.object_name,
                                      call.expires_in_seconds, call.content_type,
                                      call.browser_accessible, now)
    /\ jwt_token' = IF token_expires_at # <<>> /\ now < token_expires_at[1]
                    THEN jwt_token ELSE <<"t1">>
    /\ UNCHANGED <<now, call, earlier, signer, client, token_expires_at, tasks, history,
                   counters>>

RunPresignedPutObject ==
    /\ call.op = "presigned_put_object"
    /\ result = Pending
    /\ result' = presigned_put_object(client, signer, call.bucket_name, call.object_name,
                                      call.expires_in_seconds, call.content_type,
                                      call.browser_accessible, now)
    /\ UNCHANGED <<now, call, earlier, objVars>>

RunValidateAndLog ==
    /\ call.op = "_validate_and_log_presigned_url"
    /\ result = Pending
    /\ \E checked \in {_validate_and_log_presigned_url(
                          client, call.url, call.expires_in_seconds,
                          call.bucket_name, call.object_name)} :
          result' = IF checked.ok
                    THEN [kind |-> "return", value |-> checked.url,
                          fx |-> ClientFx(NoFx, 0, <<>>, checked.log)]
                    ELSE Raise("ValueError", checked.code, checked.message,
                               ClientFx(NoFx, 0, <<>>, checked.log))
    /\ UNCHANGED <<now, call, earlier, objVars>>

NextPresign ==
    \/ RunPresignedGetObject
    \/ RunPresignedPutObject
    \/ RunValidateAndLog
    \/ RunGeneratePresignedUrl

SpecPresign == InitPresign /\ [][NextPresign]_vars


(***************************************************************************)
(* The session cache (OmnixClient._get_auth_token) over the retrying       *)
(* transport (HttpClient._request).  A coroutine runs without interruption *)
(* up to the next await: the response of a transport attempt, or the end   *)
(* of a backoff sleep.                                                     *)
(***************************************************************************)

\* client.py 221: timedelta(hours=7)
TokenMarginHours == 7

TokenMargin == TokenMarginHours * 3600

\* A cache that never counts as valid.
CacheValid_never(token, expires_at, clock) == FALSE

\* A cache that counts as valid whenever it holds a token, however old.
CacheValid_ignores_expiry(token, expires_at, clock) == token # <<>> /\ expires_at # <<>>

\* client.py 189-190: a non-empty token and an expiry still ahead.
CacheValid(token, expires_at, clock) ==
    /\ token # <<>>
    /\ token[1] # ""
    /\ expires_at # <<>>
    /\ clock < expires_at[1]

AuthenticationFailed(message) ==
    [type |-> "AuthenticationException", code |-> "AuthenticationFailed", message |-> message]

\* A login that forgets the session when it fails.
LoginResult_clears_on_failure(response, clock) ==
    IF response.status >= 400 \/ response.body.kind # "json"
       \/ response.body.token = <<>> \/ response.body.token[1] = ""
    THEN [kind |-> "raise", value |-> "", store |-> <<[token |-> "", expires_at |-> 0]>>,
          exc |-> AuthenticationFailed("Failed to authenticate with the server.")]
    ELSE [kind |-> "return", value |-> response.body.token[1],
          store |-> <<[token |-> response.body.token[1], expires_at |-> clock + TokenMargin]>>,
          exc |-> <<>>]

\* A login that writes its token but leaves an expiry already in the cache.
LoginResult_keeps_expiry(response, clock) ==
    IF response.status >= 400 \/ response.body.kind # "json" \/ response.body.token = <<>>
    THEN [kind |-> "raise", value |-> "", store |-> <<>>,
          exc |-> AuthenticationFailed("Failed to authenticate with the server.")]
    ELSE [kind |-> "return", value |-> response.body.token[1],
          store |-> <<[token |-> response.body.token[1],
                       expires_at |-> IF token_expires_at # <<>> THEN token_expires_at[1]
                                      ELSE clock + TokenMargin]>>,
          exc |-> <<>>]

\* A login that gives way to a token already in the cache: it stores nothing
\* and hands out the cached token.
LoginResult_first_writer_wins(response, clock) ==
    IF response.status >= 400 \/ response.body.kind # "json" \/ response.body.token = <<>>
    THEN [kind |-> "raise", value |-> "", store |-> <<>>,
          exc |-> AuthenticationFailed("Failed to authenticate with the server.")]
    ELSE IF jwt_token # <<>>
    THEN [kind |-> "return", value |-> jwt_token[1], store |-> <<>>, exc |-> <<>>]
    ELSE [kind |-> "return", value |-> response.body.token[1],
          store |-> <<[token |-> response.body.token[1], expires_at |-> clock + TokenMargin]>>,
          exc |-> <<>>]

\* client.py 205-223: what a login response leads to: the token returned and the
\* pair to store, or the exception raised and nothing to store.
LoginResult(response, clock) ==
    IF response.status >= 400
    THEN [kind |-> "raise", value |-> "", store |-> <<>>,
          exc |-> AuthenticationFailed("Failed to authenticate with the server.")]
    ELSE IF response.body.kind # "json"
    THEN [kind |-> "raise", value |-> "", store |-> <<>>,
          exc |-> AuthenticationFailed("Authentication failed: Expecting value: line 1 column 1 (char 0)")]
    ELSE IF response.body.token = <<>> \/ response.body.token[1] = ""
    THEN [kind |-> "raise", value |-> "", store |-> <<>>,
          exc |-> AuthenticationFailed("No token in authentication response.")]
    ELSE [kind |-> "return", value |-> response.body.token[1],
          store |-> <<[token |-> response.body.token[1], expires_at |-> clock + TokenMargin]>>,
          exc |-> <<>>]

\* client.py 224-227: any other exception is wrapped.
LoginError(text) ==
    [kind |-> "raise", value |-> "", store |-> <<>>,
     exc |-> AuthenticationFailed("Authentication failed: " \o text)]

\* A retry loop that allows one attempt more than the budget.
RetryAfter_one_more(attempt, max_retries) == attempt < max_retries

\* _http.py 99: whether a failed attempt is followed by another.
RetryAfter(attempt, max_retries) == attempt < max_retries - 1

\* A backoff that keeps doubling.
Backoff_uncapped(attempt) == 2 ^ attempt

\* _http.py 100: the backoff sleep after a failed attempt, in seconds.
Backoff(attempt) ==
    (IF 1000 * (2 ^ attempt) < 10000 THEN 1000 * (2 ^ attempt) ELSE 10000) \div 1000

\* The token the server issues next.
NextToken == "t" \o NatToStr(counters.issued + 1)

\* What the server may answer to a login: a fresh token, a body without token,
\* a refusal.
LoginResponses ==
    {[status |-> 200, body |-> [kind |-> "json", token |-> <<NextToken>>]],
     [status |-> 200, body |-> [kind |-> "json", token |-> <<>>]],
     [status |-> 401, body |-> [kind |-> "json", token |-> <<>>]]}

\* The calls started, completed or not.
MaxCalls == 3

\* The clock moves in steps of half the token margin, up to the margin.
ElapseStep == 12600

MaxAuthClock == 25200

RetryChoices == {0, 2}

CallsStarted == Len(history) + Cardinality({t \in Tasks : tasks[t].pc # "idle"})

\* The record of a completed get_token call; stored_at is the instant at which
\* the call wrote the session cache.
Completed(t, began, began_at, cache_seen, stores_seen, logins, slept, outcome) ==
    [op |-> "get_token", task |-> t, began |-> began, ended |-> counters.seq + 1,
     began_at |-> began_at, cache_seen |-> cache_seen,
     stores_seen |-> stores_seen,
     store_no |-> IF outcome.store # <<>> THEN counters.stores + 1 ELSE 0,
     stored |-> outcome.store,
     stored_at |-> IF outcome.store # <<>> THEN now ELSE 0,
     logins |-> logins, slept |-> slept,
     kind |-> outcome.kind, value |-> outcome.value, exc |-> outcome.exc]

InitAuth ==
    /\ now = 0
    /\ call = [op |-> "get_token"]
    /\ result = Pending
    /\ earlier = <<>>
    /\ client \in {ClientWith("storage.example.com:443", <<>>, TRUE, r) : r \in RetryChoices}
    /\ signer = [access_key |-> client.access_key, secret_key |-> client.secret_key]
    /\ jwt_token = <<>>
    /\ token_expires_at = <<>>
    /\ NoCoroutines

\* client.py 186-203: a coroutine calls _get_auth_token.  A valid cache answers
\* at once; otherwise the login request goes out with the first transport attempt
\* (_http.py 94-96), unless the retry budget allows no attempt at all.  The
\* coroutines being alike, the one that calls first is named A.
StartGetToken(t) ==
    /\ tasks[t].pc = "idle"
    /\ CallsStarted < MaxCalls
    /\ t = "B" => CallsStarted > 0
    /\ IF CacheValid(jwt_token, token_expires_at, now)
       THEN /\ history' = Append(history,
                    Completed(t, counters.seq + 1, now, <<jwt_token, token_expires_at>>,
                              counters.stores, 0, 0,
                              [kind |-> "return", value |-> jwt_token[1], store |-> <<>>,
                               exc |-> <<>>]))
            /\ counters' = [counters EXCEPT !.seq = @ + 1]
            /\ UNCHANGED tasks
       ELSE IF client.max_retries <= 0
       THEN /\ history' = Append(history,
                    Completed(t, counters.seq + 1, now, <<jwt_token, token_expires_at>>,
                              counters.stores, 0, 0,
                              LoginError("'NoneType' object has no attribute 'status_code'")))
            /\ counters' = [counters EXCEPT !.seq = @ + 1]
            /\ UNCHANGED tasks
       ELSE /\ tasks' = [tasks EXCEPT ![t] =
                    [pc |-> "login_attempt", attempt |-> 0, began |-> counters.seq + 1,
                     began_at |-> now, cache_seen |-> <<jwt_token, token_expires_at>>,
                     stores_seen |-> counters.stores, logins |-> 1, slept |-> 0]]
            /\ counters' = [counters EXCEPT !.seq = @ + 1, !.requests = @ + 1]
            /\ UNCHANGED history
    /\ UNCHANGED <<now, call, result, earlier, signer, client, jwt_token, token_expires_at>>

\* client.py 205-223: the coroutine judges the response of its login, stores
\* the token and its expiry, and returns.
LoginRespondsWith(t, responses) ==
    /\ \E response \in responses :
        \E outcome \in {LoginResult(response, now)} :
          /\ history' = Append(history,
                Completed(t, tasks[t].began, tasks[t].began_at, tasks[t].cache_seen,
                          tasks[t].stores_seen, tasks[t].logins, tasks[t].slept, outcome))
          /\ jwt_token' = IF outcome.store # <<>> THEN <<outcome.store[1].token>>
                          ELSE jwt_token
          /\ token_expires_at' = IF outcome.store # <<>> THEN <<outcome.store[1].expires_at>>
                                 ELSE token_expires_at
          /\ counters' = [counters EXCEPT
                !.seq = @ + 1,
                !.issued = IF response.body.token = <<NextToken>> THEN @ + 1 ELSE @,
                !.stores = IF outcome.store # <<>> THEN @ + 1 ELSE @]
    /\ tasks' = [tasks EXCEPT ![t] = IdleTask]
    /\ UNCHANGED <<now, call, result, earlier, signer, client>>

\* _http.py 96-97: the attempt gets a response.
LoginResponds(t) ==
    /\ tasks[t].pc = "login_attempt"
    /\ LoginRespondsWith(t, LoginResponses)

\* _http.py 98-103: the attempt fails in the transport.  With attempts left the
\* coroutine sleeps; without, the error is raised, and client.py 224-227 wraps it.
LoginFails(t) ==
    /\ tasks[t].pc = "login_attempt"
    /\ IF RetryAfter(tasks[t].attempt, client.max_retries)
       THEN /\ tasks' = [tasks EXCEPT ![t].pc = "login_sleep",
                                      ![t].slept = @ + Backoff(tasks[t].attempt)]
            /\ UNCHANGED <<history, counters>>
       ELSE /\ history' = Append(history,
                    Completed(t, tasks[t].began, tasks[t].began_at, tasks[t].cache_seen,
                              tasks[t].stores_seen, tasks[t].logins, tasks[t].slept,
                              LoginError("All connection attempts failed")))
            /\ counters' = [counters EXCEPT !.seq = @ + 1]
            /\ tasks' = [tasks EXCEPT ![t] = IdleTask]
    /\ UNCHANGED <<now, call, result, earlier, signer, client, jwt_token, token_expires_at>>

\* A retry that takes the attempt it makes off the configured budget.
LoginWakes_spends_budget(t) ==
    /\ tasks[t].pc = "login_sleep"
    /\ tasks' = [tasks EXCEPT ![t].pc = "login_attempt",
                              ![t].attempt = @ + 1,
                              ![t].logins = @ + 1]
    /\ counters' = [counters EXCEPT !.requests = @ + 1]
    /\ client' = [client EXCEPT !.max_retries = @ - 1]
    /\ UNCHANGED <<now, call, result, earlier, signer, jwt_token, token_expires_at, history>>

\* _http.py 94-96 after 101: the sleep ends and the next attempt goes out.
LoginWakes(t) ==
    /\ tasks[t].pc = "login_sleep"
    /\ tasks' = [tasks EXCEPT ![t].pc = "login_attempt",
                              ![t].attempt = @ + 1,
                              ![t].logins = @ + 1]
    /\ counters' = [counters EXCEPT !.requests = @ + 1]
    /\ UNCHANGED <<now, call, result, earlier, signer, client, jwt_token, token_expires_at,
                   history>>

\* Time passes.
Elapse ==
    /\ now < MaxAuthClock
    /\ now' = now + ElapseStep
    /\ UNCHANGED <<call, result, earlier, objVars>>

NextAuth ==
    \/ \E t \in Tasks : StartGetToken(t)
    \/ \E t \in Tasks : LoginResponds(t)
    \/ \E t \in Tasks : LoginFails(t)
    \/ \E t \in Tasks : LoginWakes(t)
    \/ Elapse

SpecAuth == InitAuth /\ [][NextAuth]_vars

(***************************************************************************)
(* Refreshes of a session that has expired: two coroutines call            *)
(* _get_auth_token on a cache that is empty or holds a token past its      *)
(* expiry, and the server answers a login in every way the client tells    *)
(* apart.                                                                  *)
(***************************************************************************)

\* What the server may answer to a login, a body that is not JSON included.
RefreshResponses ==
    LoginResponses
    \cup {[status |-> 200, body |-> [kind |-> "text", token |-> <<>>]],
          [status |-> 200, body |-> [kind |-> "json", token |-> <<"">>]]}

\* The cache is empty, or holds the pair a login seven hours before instant 0
\* left: the token is there and its expiry is no longer ahead.
InitRefresh ==
    /\ now = 0
    /\ call = [op |-> "get_token"]
    /\ result = Pending
    /\ earlier = <<>>
    /\ client \in {ClientWith("storage.example.com:443", <<>>, TRUE, r) : r \in RetryChoices}
    /\ signer = [access_key |-> client.access_key, secret_key |-> client.secret_key]
    /\ \E cached \in BOOLEAN :
          /\ jwt_token = IF cached THEN <<"t0">> ELSE <<>>
          /\ token_expires_at = IF cached THEN <<0>> ELSE <<>>
    /\ NoCoroutines

RefreshStarts(t) ==
    /\ tasks[t].pc = "idle"
    /\ StartGetToken(t)

RefreshResponds(t) ==
    /\ tasks[t].pc = "login_attempt"
    /\ LoginRespondsWith(t, RefreshResponses)

RefreshFails(t) ==
    /\ tasks[t].pc = "login_attempt"
    /\ LoginFails(t)

RefreshWakes(t) ==
    /\ tasks[t].pc = "login_sleep"
    /\ LoginWakes(t)

NextRefresh ==
    \/ \E t \in Tasks : RefreshStarts(t)
    \/ \E t \in Tasks : RefreshResponds(t)
    \/ \E t \in Tasks : RefreshFails(t)
    \/ \E t \in Tasks : RefreshWakes(t)

SpecRefresh == InitRefresh /\ [][NextRefresh]_vars

(***************************************************************************)
(* The request pipeline (OmnixClient._make_request) and the login it       *)
(* starts with, over the retrying transport (HttpClient._request), one     *)
(* call at a time.  history is what went over the wire and what was slept; *)
(* tasks holds the position of the coroutine, the token it obtained and    *)
(* the headers it sends.  httpx is outside the repository: a transport     *)
(* attempt either yields a response or raises an httpx.RequestError.       *)
(***************************************************************************)

NoException == [type |-> "", code |-> "", message |-> ""]

\* error.py 68-72: ServerException(message, status_code)
ServerException(message, status_code) ==
    [kind |-> "raise", value |-> <<>>,
     exc |-> [type |-> "ServerException", code |-> "ServerError", message |-> message],
     status_code |-> <<status_code>>, cause |-> <<>>]

\* A status check that lets the 4xx statuses through.
ResponseResult_server_errors_only(response) ==
    IF response.status >= 500
    THEN ServerException("Request failed with status " \o NatToStr(response.status),
                         response.status)
    ELSE [kind |-> "return", value |-> <<response>>, exc |-> NoException,
          status_code |-> <<>>, cause |-> <<>>]

\* client.py 271-277: the final response becomes a ServerException or is returned.
ResponseResult(response) ==
    IF response.status >= 400
    THEN ServerException(IF response.status = 404 THEN "Resource not found"
                         ELSE "Request failed with status " \o NatToStr(response.status),
                         response.status)
    ELSE [kind |-> "return", value |-> <<response>>, exc |-> NoException,
          status_code |-> <<>>, cause |-> <<>>]

\* Headers that keep an Authorization header the caller supplied.
BearerHeaders_keeps_caller(headers, token) ==
    IF headers # <<>> /\ DictHas(headers[1], "Authorization")
    THEN headers[1]
    ELSE DictSet(IF headers = <<>> THEN <<>> ELSE headers[1], "Authorization", "Bearer " \o token)

\* client.py 241-244: headers defaults to {} and takes the bearer token.
BearerHeaders(headers, token) ==
    DictSet(IF headers = <<>> THEN <<>> ELSE headers[1], "Authorization", "Bearer " \o token)

\* client.py 248-269: the methods _make_request dispatches.
SupportedMethods == {"GET", "HEAD", "PUT", "DELETE", "POST"}

\* An httpx.RequestError, raised by the attempt of the given index in the given step.
RequestError(type, step, attempt) ==
    [type |-> type, step |-> step, attempt |-> attempt,
     message |-> IF type = "ConnectError" THEN "All connection attempts failed"
                 ELSE "The read operation timed out"]

\* _http.py 102-103: the error of the last attempt leaves _request as it is.
Surfaced(error) ==
    [kind |-> "raise", value |-> <<>>,
     exc |-> [type |-> error.type, code |-> "TransportError", message |-> error.message],
     status_code |-> <<>>, cause |-> <<error>>]

\* client.py 193-227 as seen by the caller of _get_auth_token: the outcome of the
\* login, with the exception it was made from, if any.  AuthenticationException
\* carries status_code 401 (error.py 57-65).
FromLogin(outcome, cause) ==
    IF outcome.kind = "return"
    THEN [kind |-> "return", value |-> <<outcome.value>>, exc |-> NoException,
          status_code |-> <<>>, cause |-> <<>>]
    ELSE [kind |-> "raise", value |-> <<>>, exc |-> outcome.exc,
          status_code |-> <<401>>, cause |-> cause]

\* _http.py 94 with max_retries <= 0: the loop body never runs, _request returns
\* None, and the first use of the response raises AttributeError.
NoResponseMessage == "'NoneType' object has no attribute 'status_code'"

NoResponse ==
    [kind |-> "raise", value |-> <<>>,
     exc |-> [type |-> "AttributeError", code |-> "AttributeError", message |-> NoResponseMessage],
     status_code |-> <<>>, cause |-> <<>>]

\* client.py 268-269
UnsupportedMethod(method) ==
    [kind |-> "raise", value |-> <<>>,
     exc |-> [type |-> "ValueError", code |-> "ValueError",
              message |-> "Unsupported HTTP method: " \o method],
     status_code |-> <<>>, cause |-> <<>>]

\* What is observed of the transport: a request sent, a response or an error
\* received, a sleep taken.
Event(ev, step, attempt) ==
    [ev |-> ev, step |-> step, attempt |-> attempt, headers |-> <<>>, status |-> 0,
     token |-> <<>>, seconds |-> 0, error |-> <<>>]

Sent(step, attempt, headers) == [Event("request", step, attempt) EXCEPT !.headers = headers]

IdleCall == [pc |-> "idle", step |-> "", attempt |-> 0, token |-> <<>>, headers |-> <<>>]

DoneCall(token) == [pc |-> "done", step |-> "", attempt |-> 0, token |-> token, headers |-> <<>>]

\* What the login endpoint may answer: a success, a redirect, a refusal or a
\* server failure, each with a fresh token, an empty token, no token field, or
\* a body that is not JSON.
PipelineLoginResponses ==
    {[status |-> s, body |-> b] :
        s \in {200, 302, 401, 500},
        b \in {[kind |-> "json", token |-> <<NextToken>>],
               [kind |-> "json", token |-> <<"">>],
               [kind |-> "json", token |-> <<>>],
               [kind |-> "text", token |-> <<>>]}}

\* What a bucket or object endpoint may answer.
DispatchResponses ==
    {[status |-> s, body |-> [kind |-> "text", token |-> <<>>]] :
        s \in {200, 204, 302, 399, 400, 404, 500, 503}}

\* httpx.ConnectError and httpx.ReadTimeout are both httpx.RequestError.
TransportErrors == {"ConnectError", "ReadTimeout"}

\* max_retries of the client: none, one, the default, and enough for the
\* backoff to reach its cap twice.
PipelineRetryChoices == {0, 1, 3, 7}

\* The headers argument of _make_request: None, or a dict.
HeaderArgs ==
    {<<>>,
     << <<<<"Content-Type", "application/xml">>>> >>,
     << <<<<"Authorization", "Bearer stale">>, <<"Content-Type", "text/plain">>>> >>,
     << <<<<"authorization", "Basic abc">>>> >>}

\* The calls: the pipeline with a method, a path and headers, or the login on
\* its own; outage is the kind of failure the network produces during the call.
PipelineCalls ==
    {[op |-> "_make_request", method |-> m, path |-> "/photo-test", headers |-> h,
      outage |-> o] : m \in {"GET", "PUT", "PATCH"}, h \in HeaderArgs, o \in TransportErrors}
    \cup {[op |-> "_get_auth_token", outage |-> o] : o \in TransportErrors}

\* The session cache before the call: empty, or the pair an earlier login at
\* instant 0 left.
InitPipeline ==
    /\ now \in {0, TokenMargin}
    /\ call \in PipelineCalls
    /\ result = Pending
    /\ earlier = <<>>
    /\ client \in {ClientWith("storage.example.com:443", <<>>, TRUE, r) : r \in PipelineRetryChoices}
    /\ signer = [access_key |-> client.access_key, secret_key |-> client.secret_key]
    /\ \E cached \in BOOLEAN :
          /\ jwt_token = IF cached THEN <<"t0">> ELSE <<>>
          /\ token_expires_at = IF cached THEN <<TokenMargin>> ELSE <<>>
    /\ tasks = [t \in Tasks |-> IdleCall]
    /\ history = <<>>
    /\ counters = ZeroCounters

\* A pipeline that sends whatever method it is given.
Obtained_any_method(t, token, log) ==
    IF call.op = "_get_auth_token"
    THEN /\ result' = [kind |-> "return", value |-> <<token>>, exc |-> NoException,
                       status_code |-> <<>>, cause |-> <<>>]
         /\ tasks' = [tasks EXCEPT ![t] = DoneCall(<<token>>)]
         /\ history' = log
    ELSE IF client.max_retries <= 0
    THEN /\ result' = NoResponse
         /\ tasks' = [tasks EXCEPT ![t] = DoneCall(<<token>>)]
         /\ history' = log
    ELSE /\ UNCHANGED result
         /\ tasks' = [tasks EXCEPT ![t] =
                [pc |-> "attempt", step |-> "dispatch", attempt |-> 0, token |-> <<token>>,
                 headers |-> <<BearerHeaders(call.headers, token)>>]]
         /\ history' = Append(log, Sent("dispatch", 0, <<BearerHeaders(call.headers, token)>>))

\* client.py 239-269: _get_auth_token has returned token.  The login on its own
\* is over; the pipeline sets the Authorization header and dispatches by
\* method, the first transport attempt going out at once (_http.py 94-96).
Obtained(t, token, log) ==
    IF call.op = "_get_auth_token"
    THEN /\ result' = [kind |-> "return", value |-> <<token>>, exc |-> NoException,
                       status_code |-> <<>>, cause |-> <<>>]
         /\ tasks' = [tasks EXCEPT ![t] = DoneCall(<<token>>)]
         /\ history' = log
    ELSE IF call.method \notin SupportedMethods
    THEN /\ result' = UnsupportedMethod(call.method)
         /\ tasks' = [tasks EXCEPT ![t] = DoneCall(<<token>>)]
         /\ history' = log
    ELSE IF client.max_retries <= 0
    THEN /\ result' = NoResponse
         /\ tasks' = [tasks EXCEPT ![t] = DoneCall(<<token>>)]
         /\ history' = log
    ELSE /\ UNCHANGED result
         /\ tasks' = [tasks EXCEPT ![t] =
                [pc |-> "attempt", step |-> "dispatch", attempt |-> 0, token |-> <<token>>,
                 headers |-> <<BearerHeaders(call.headers, token)>>]]
         /\ history' = Append(log, Sent("dispatch", 0, <<BearerHeaders(call.headers, token)>>))

\* client.py 186-203: the call begins.  A valid cache gives the token at once;
\* otherwise the login request goes out, without headers, unless the retry
\* budget allows no attempt at all.
CallStarts(t) ==
    /\ tasks[t].pc = "idle"
    /\ result = Pending
    /\ IF CacheValid(jwt_token, token_expires_at, now)
       THEN Obtained(t, jwt_token[1], history)
       ELSE IF client.max_retries <= 0
       THEN /\ result' = FromLogin(LoginError(NoResponseMessage), <<>>)
            /\ tasks' = [tasks EXCEPT ![t] = DoneCall(<<>>)]
            /\ UNCHANGED history
       ELSE /\ tasks' = [tasks EXCEPT ![t] =
                    [pc |-> "attempt", step |-> "login", attempt |-> 0, token |-> <<>>,
                     headers |-> <<>>]]
            /\ history' = Append(history, Sent("login", 0, <<>>))
            /\ UNCHANGED result
    /\ UNCHANGED <<now, call, earlier, signer, client, jwt_token, token_expires_at, counters>>

\* _http.py 96-97 and client.py 205-223: the login attempt gets a response.  A
\* token is stored and the call goes on with it; anything else ends the call.
LoginAnswered(t) ==
    /\ tasks[t].pc = "attempt"
    /\ tasks[t].step = "login"
    /\ \E response \in PipelineLoginResponses :
        \E outcome \in {LoginResult(response, now)} :
          \E log \in {Append(history, [Event("response", "login", tasks[t].attempt) EXCEPT
                                          !.status = response.status,
                                          !.token = response.body.token])} :
            /\ jwt_token' = IF outcome.store # <<>> THEN <<outcome.store[1].token>>
                            ELSE jwt_token
            /\ token_expires_at' = IF outcome.store # <<>> THEN <<outcome.store[1].expires_at>>
                                   ELSE token_expires_at
            /\ counters' = [counters EXCEPT
                  !.issued = IF response.body.token = <<NextToken>> THEN @ + 1 ELSE @,
                  !.stores = IF outcome.store # <<>> THEN @ + 1 ELSE @]
            /\ IF outcome.kind = "return"
               THEN Obtained(t, outcome.value, log)
               ELSE /\ result' = FromLogin(outcome, <<>>)
                    /\ tasks' = [tasks EXCEPT ![t] = DoneCall(<<>>)]
                    /\ history' = log
    /\ UNCHANGED <<now, call, earlier, signer, client>>

\* A pipeline that sends the request again when the server answers 5xx.
DispatchAnswered_retries_server_errors(t) ==
    /\ tasks[t].pc = "attempt"
    /\ tasks[t].step = "dispatch"
    /\ \E response \in DispatchResponses :
          IF response.status >= 500 /\ RetryAfter(tasks[t].attempt, client.max_retries)
          THEN /\ UNCHANGED result
               /\ history' = Append(history, [Event("response", "dispatch", tasks[t].attempt)
                                                 EXCEPT !.status = response.status])
               /\ tasks' = [tasks EXCEPT ![t].pc = "sleep"]
          ELSE /\ result' = ResponseResult(response)
               /\ history' = Append(history, [Event("response", "dispatch", tasks[t].attempt)
                                                 EXCEPT !.status = response.status])
               /\ tasks' = [tasks EXCEPT ![t] = DoneCall(tasks[t].token)]
    /\ UNCHANGED <<now, call, earlier, signer, client, jwt_token, token_expires_at, counters>>

\* _http.py 96-97 and client.py 271-277: the dispatched request gets a response,
\* whatever its status; the retry loop is left and the response is judged.
DispatchAnswered(t) ==
    /\ tasks[t].pc = "attempt"
    /\ tasks[t].step = "dispatch"
    /\ \E response \in DispatchResponses :
          /\ result' = ResponseResult(response)
          /\ history' = Append(history, [Event("response", "dispatch", tasks[t].attempt) EXCEPT
                                            !.status = response.status])
    /\ tasks' = [tasks EXCEPT ![t] = DoneCall(tasks[t].token)]
    /\ UNCHANGED <<now, call, earlier, signer, client, jwt_token, token_expires_at, counters>>

\* _http.py 98-103: the attempt raises httpx.RequestError.  With attempts left
\* the coroutine sleeps; without, the error is raised again: out of the login
\* it is wrapped by client.py 224-227, out of the dispatch it reaches the caller.
AttemptFails(t) ==
    /\ tasks[t].pc = "attempt"
    /\ \E error \in {RequestError(call.outage, tasks[t].step, tasks[t].attempt)} :
        \E log \in {Append(history, [Event("error", tasks[t].step, tasks[t].attempt) EXCEPT
                                        !.error = <<error>>])} :
          IF RetryAfter(tasks[t].attempt, client.max_retries)
          THEN /\ tasks' = [tasks EXCEPT ![t].pc = "sleep"]
               /\ history' = Append(log, [Event("sleep", tasks[t].step, tasks[t].attempt) EXCEPT
                                             !.seconds = Backoff(tasks[t].attempt)])
               /\ UNCHANGED result
          ELSE /\ result' = IF tasks[t].step = "login"
                            THEN FromLogin(LoginError(error.message), <<error>>)
                            ELSE Surfaced(error)
               /\ tasks' = [tasks EXCEPT ![t] = DoneCall(tasks[t].token)]
               /\ history' = log
    /\ UNCHANGED <<now, call, earlier, signer, client, jwt_token, token_expires_at, counters>>

\* _http.py 94-96 after 101: the sleep ends and the same request goes out again.
AttemptRetried(t) ==
    /\ tasks[t].pc = "sleep"
    /\ tasks' = [tasks EXCEPT ![t].pc = "attempt", ![t].attempt = @ + 1]
    /\ history' = Append(history, Sent(tasks[t].step, tasks[t].attempt + 1, tasks[t].headers))
    /\ UNCHANGED <<now, call, result, earlier, signer, client, jwt_token, token_expires_at,
                   counters>>

NextPipeline ==
    \/ CallStarts("A")
    \/ LoginAnswered("A")
    \/ DispatchAnswered("A")
    \/ AttemptFails("A")
    \/ AttemptRetried("A")

SpecPipeline == InitPipeline /\ [][NextPipeline]_vars

(***************************************************************************)
(* The bucket and object operations of OmnixClient.  Each is written as    *)
(* what it makes of the outcome of its _make_request call; the call itself *)
(* is one step here, run to its end: the login it may start with, the      *)
(* dispatch, and the retries of the transport inside either.  history is   *)
(* the sequence of _make_request calls made and of sleeps taken by the     *)
(* operations; tasks holds the position of ensure_bucket_exists in its     *)
(* loop.  Response headers and content are left out: an operation that     *)
(* returns metadata returns the names it was given.                        *)
(***************************************************************************)

\* A value an operation returns; None is the empty tuple.
Returned(value) ==
    [kind |-> "return", value |-> value, exc |-> NoException, status_code |-> <<>>,
     cause |-> <<>>]

\* error.py 39-47: ObjectNotFoundException(bucket_name, object_name)
ObjectNotFoundException(bucket_name, object_name) ==
    [kind |-> "raise", value |-> <<>>,
     exc |-> [type |-> "ObjectNotFoundException", code |-> "NoSuchKey",
              message |-> "Object '" \o object_name \o "' not found in bucket '"
                          \o bucket_name \o "'."],
     status_code |-> <<404>>, cause |-> <<>>]

\* response.json() on a body that is not JSON.
JSONDecodeError ==
    [kind |-> "raise", value |-> <<>>,
     exc |-> [type |-> "JSONDecodeError", code |-> "ValueError",
              message |-> "Expecting value: line 1 column 1 (char 0)"],
     status_code |-> <<>>, cause |-> <<>>]

\* client.py 753-754: no attempt ended in an exception and none found the bucket.
EnsureFailed(bucket_name, max_attempts) ==
    [kind |-> "raise", value |-> <<>>,
     exc |-> [type |-> "RuntimeError", code |-> "RuntimeError",
              message |-> "Failed to ensure bucket '" \o bucket_name \o "' exists after "
                          \o IntToStr(max_attempts) \o " attempts."],
     status_code |-> <<>>, cause |-> <<>>]

\* except ServerException as e: if e.status_code == 404
NotFound(made) ==
    made.kind = "raise" /\ made.exc.type = "ServerException" /\ made.status_code = <<404>>

\* client.py 281-290
bucket_exists(made) ==
    IF made.kind = "return" THEN Returned(<<TRUE>>)
    ELSE IF NotFound(made) THEN Returned(<<FALSE>>)
    ELSE made

\* client.py 292-295
make_bucket(made) == IF made.kind = "return" THEN Returned(<<>>) ELSE made

\* client.py 297-300
remove_bucket(made) == IF made.kind = "return" THEN Returned(<<>>) ELSE made

\* client.py 302-317: the body is parsed; without a "buckets" entry the list is empty.
list_buckets(made) ==
    IF made.kind # "return" THEN made
    ELSE IF made.value[1].body.kind # "json" THEN JSONDecodeError
    ELSE Returned(<< <<>> >>)

\* client.py 320-349
put_object(made, bucket_name, object_name) ==
    IF made.kind = "return"
    THEN Returned(<<[bucket_name |-> bucket_name, object_name |-> object_name,
                     etag |-> "unknown"]>>)
    ELSE made

\* client.py 351-375
get_object(made, bucket_name, object_name) ==
    IF made.kind = "return"
    THEN Returned(<<[bucket_name |-> bucket_name, object_name |-> object_name,
                     etag |-> "unknown"]>>)
    ELSE IF NotFound(made) THEN ObjectNotFoundException(bucket_name, object_name)
    ELSE made

\* A stat_object that lets the ServerException of a 404 through.
stat_object_unspecialised(made, bucket_name, object_name) ==
    IF made.kind = "return"
    THEN Returned(<<[bucket_name |-> bucket_name, object_name |-> object_name,
                     etag |-> "unknown"]>>)
    ELSE made

\* client.py 377-398
stat_object(made, bucket_name, object_name) ==
    IF made.kind = "return"
    THEN Returned(<<[bucket_name |-> bucket_name, object_name |-> object_name,
                     etag |-> "unknown"]>>)
    ELSE IF NotFound(made) THEN ObjectNotFoundException(bucket_name, object_name)
    ELSE made

\* A remove_object that takes every ServerException for success.
remove_object_absorbs_all(made) ==
    IF made.kind = "return" THEN Returned(<<>>)
    ELSE IF made.exc.type = "ServerException" THEN Returned(<<>>)
    ELSE made

\* client.py 400-413: a 404 is not a failure; anything else is raised again.
remove_object(made) ==
    IF made.kind = "return" THEN Returned(<<>>)
    ELSE IF NotFound(made) THEN Returned(<<>>)
    ELSE made

\* client.py 756-762: except Exception takes whatever list_buckets raises.
health_check_buckets(made) == Returned(<<list_buckets(made).kind = "return">>)

\* client.py 766-772
health(made) == Returned(<<made.kind = "return">>)

\* The request each operation makes.
RequestOf(c) ==
    CASE c.op \in {"bucket_exists"} -> [method |-> "HEAD", path |-> "/" \o c.bucket_name]
      [] c.op = "make_bucket" -> [method |-> "PUT", path |-> "/" \o c.bucket_name]
      [] c.op = "remove_bucket" -> [method |-> "DELETE", path |-> "/" \o c.bucket_name]
      [] c.op \in {"list_buckets", "health_check_buckets"} ->
            [method |-> "GET", path |-> "/api/admin/buckets"]
      [] c.op = "health" -> [method |-> "GET", path |-> "/api/health"]
      [] c.op = "put_object" ->
            [method |-> "PUT", path |-> "/" \o c.bucket_name \o "/" \o c.object_name]
      [] c.op = "get_object" ->
            [method |-> "GET", path |-> "/" \o c.bucket_name \o "/" \o c.object_name]
      [] c.op = "stat_object" ->
            [method |-> "HEAD", path |-> "/" \o c.bucket_name \o "/" \o c.object_name]
      [] c.op = "remove_object" ->
            [method |-> "DELETE", path |-> "/" \o c.bucket_name \o "/" \o c.object_name]

\* What each operation makes of the outcome of its request.
Operation(c, made) ==
    CASE c.op = "bucket_exists" -> bucket_exists(made)
      [] c.op = "make_bucket" -> make_bucket(made)
      [] c.op = "remove_bucket" -> remove_bucket(made)
      [] c.op = "list_buckets" -> list_buckets(made)
      [] c.op = "health_check_buckets" -> health_check_buckets(made)
      [] c.op = "health" -> health(made)
      [] c.op = "put_object" -> put_object(made, c.bucket_name, c.object_name)
      [] c.op = "get_object" -> get_object(made, c.bucket_name, c.object_name)
      [] c.op = "stat_object" -> stat_object(made, c.bucket_name, c.object_name)
      [] c.op = "remove_object" -> remove_object(made)

\* What the login endpoint answers to these operations: a token, or a refusal.
OpsLoginResponses ==
    {[status |-> 200, body |-> [kind |-> "json", token |-> <<NextToken>>]],
     [status |-> 401, body |-> [kind |-> "text", token |-> <<>>]]}

\* What a bucket or object endpoint answers: successes with and without a JSON
\* body, a redirect, and client and server errors.
OpsResponses ==
    {[status |-> 200, body |-> [kind |-> k, token |-> <<>>]] : k \in {"json", "text"}}
    \cup {[status |-> s, body |-> [kind |-> "text", token |-> <<>>]] :
             s \in {204, 302, 400, 403, 404, 500}}

\* What the bucket endpoint answers while ensure_bucket_exists runs.
EnsureResponses ==
    {[status |-> s, body |-> [kind |-> "text", token |-> <<>>]] : s \in {200, 404, 500}}

\* client.py 246-277 with _http.py 86-103: the dispatch of a supported method
\* ends in a response, judged by its status, or in the transport error of the
\* last attempt; a retry budget of zero leaves no response at all.
Dispatched(method, responses, outage, max_retries) ==
    IF method \notin SupportedMethods THEN {UnsupportedMethod(method)}
    ELSE IF max_retries <= 0 THEN {NoResponse}
    ELSE {ResponseResult(r) : r \in responses}
         \cup {Surfaced(RequestError(outage, "dispatch", max_retries - 1))}

\* client.py 229-277: one _make_request call run to its end.  made is what the
\* caller gets, token and expires_at are the session cache it leaves, issued
\* counts the token the login stored.
_make_request(method, token, expires_at, clock, responses, outage, max_retries) ==
    IF CacheValid(token, expires_at, clock)
    THEN {[made |-> d, token |-> token, expires_at |-> expires_at, issued |-> 0] :
             d \in Dispatched(method, responses, outage, max_retries)}
    ELSE IF max_retries <= 0
    THEN {[made |-> FromLogin(LoginError(NoResponseMessage), <<>>),
           token |-> token, expires_at |-> expires_at, issued |-> 0]}
    ELSE {[made |-> FromLogin(LoginError(RequestError(outage, "login", max_retries - 1).message),
                              <<RequestError(outage, "login", max_retries - 1)>>),
           token |-> token, expires_at |-> expires_at, issued |-> 0]}
         \cup UNION {
                IF LoginResult(r, clock).kind = "return"
                THEN {[made |-> d, token |-> <<LoginResult(r, clock).store[1].token>>,
                       expires_at |-> <<LoginResult(r, clock).store[1].expires_at>>,
                       issued |-> 1] :
                         d \in Dispatched(method, responses, outage, max_retries)}
                ELSE {[made |-> FromLogin(LoginResult(r, clock), <<>>),
                       token |-> token, expires_at |-> expires_at, issued |-> 0]} :
                r \in OpsLoginResponses}

\* An entry of history: a _make_request call with its outcome, or a sleep.
Called(method, path, made) ==
    [ev |-> "call", method |-> method, path |-> path, made |-> made, seconds |-> 0]

Slept(seconds) ==
    [ev |-> "sleep", method |-> "", path |-> "", made |-> Pending, seconds |-> seconds]

\* The position of ensure_bucket_exists: the attempt, the request of the
\* attempt that comes next, and last_error.
IdleEnsure == [pc |-> "idle", attempt |-> 0, stage |-> "", last_error |-> <<>>]

\* An ensure_bucket_exists that forgets the error of an earlier attempt when an
\* attempt completes without raising.
ensure_bucket_exists_forgets_error(task, made, bucket_name, max_attempts, delay_seconds) ==
    LET Over(last_error) ==
            IF task.attempt < max_attempts
            THEN [task |-> [task EXCEPT !.pc = "sleep", !.last_error = last_error],
                  result |-> Pending, slept |-> <<delay_seconds>>]
            ELSE [task |-> [task EXCEPT !.pc = "done", !.last_error = last_error],
                  result |-> IF last_error # <<>> THEN last_error[1]
                             ELSE EnsureFailed(bucket_name, max_attempts),
                  slept |-> <<>>]
        Goes(stage) ==
            [task |-> [task EXCEPT !.stage = stage], result |-> Pending, slept |-> <<>>]
        Found ==
            [task |-> [task EXCEPT !.pc = "done"], result |-> Returned(<<>>), slept |-> <<>>]
    IN  IF task.stage = "make_bucket"
        THEN IF make_bucket(made).kind = "raise" THEN Over(<<make_bucket(made)>>)
             ELSE Goes("bucket_exists_again")
        ELSE IF bucket_exists(made).kind = "raise" THEN Over(<<bucket_exists(made)>>)
        ELSE IF bucket_exists(made).value = <<TRUE>> THEN Found
        ELSE IF task.stage = "bucket_exists" THEN Goes("make_bucket")
        ELSE Over(<<>>)

\* An ensure_bucket_exists that sleeps after its last attempt and tries once more.
ensure_bucket_exists_one_more(task, made, bucket_name, max_attempts, delay_seconds) ==
    LET Over(last_error) ==
            IF task.attempt < max_attempts + 1
            THEN [task |-> [task EXCEPT !.pc = "sleep", !.last_error = last_error],
                  result |-> Pending, slept |-> <<delay_seconds>>]
            ELSE [task |-> [task EXCEPT !.pc = "done", !.last_error = last_error],
                  result |-> IF last_error # <<>> THEN last_error[1]
                             ELSE EnsureFailed(bucket_name, max_attempts),
                  slept |-> <<>>]
        Goes(stage) ==
            [task |-> [task EXCEPT !.stage = stage], result |-> Pending, slept |-> <<>>]
        Found ==
            [task |-> [task EXCEPT !.pc = "done"], result |-> Returned(<<>>), slept |-> <<>>]
    IN  IF task.stage = "make_bucket"
        THEN IF make_bucket(made).kind = "raise" THEN Over(<<make_bucket(made)>>)
             ELSE Goes("bucket_exists_again")
        ELSE IF bucket_exists(made).kind = "raise" THEN Over(<<bucket_exists(made)>>)
        ELSE IF bucket_exists(made).value = <<TRUE>> THEN Found
        ELSE IF task.stage = "bucket_exists" THEN Goes("make_bucket")
        ELSE Over(task.last_error)

\* client.py 738-754 from one request of the loop to the next: made is the
\* outcome of the request of task.stage.  The answer is the position after it,
\* the result if the call is over, and the sleep if one begins.
ensure_bucket_exists(task, made, bucket_name, max_attempts, delay_seconds) ==
    LET Over(last_error) ==
            IF task.attempt < max_attempts
            THEN [task |-> [task EXCEPT !.pc = "sleep", !.last_error = last_error],
                  result |-> Pending, slept |-> <<delay_seconds>>]
            ELSE [task |-> [task EXCEPT !.pc = "done", !.last_error = last_error],
                  result |-> IF last_error # <<>> THEN last_error[1]
                             ELSE EnsureFailed(bucket_name, max_attempts),
                  slept |-> <<>>]
        Goes(stage) ==
            [task |-> [task EXCEPT !.stage = stage], result |-> Pending, slept |-> <<>>]
        Found ==
            [task |-> [task EXCEPT !.pc = "done"], result |-> Returned(<<>>), slept |-> <<>>]
    IN  IF task.stage = "make_bucket"
        THEN IF make_bucket(made).kind = "raise" THEN Over(<<make_bucket(made)>>)
             ELSE Goes("bucket_exists_again")
        ELSE IF bucket_exists(made).kind = "raise" THEN Over(<<bucket_exists(made)>>)
        ELSE IF bucket_exists(made).value = <<TRUE>> THEN Found
        ELSE IF task.stage = "bucket_exists" THEN Goes("make_bucket")
        ELSE Over(task.last_error)

\* The operations called: on a bucket, on an object, on the service, and
\* ensure_bucket_exists with no attempt, one, the default three, and a delay of
\* two seconds.  outage is the failure the network produces during the call.
BucketOperations == {"bucket_exists", "make_bucket", "remove_bucket"}

ObjectOperations == {"put_object", "get_object", "stat_object", "remove_object"}

ServiceOperations == {"list_buckets", "health_check_buckets", "health"}

OpsCalls ==
    {[op |-> o, bucket_name |-> "photos", outage |-> e] :
        o \in BucketOperations, e \in TransportErrors}
    \cup {[op |-> o, bucket_name |-> "photos", object_name |-> "cat.png", outage |-> e] :
            o \in ObjectOperations, e \in TransportErrors}
    \cup {[op |-> o, outage |-> e] : o \in ServiceOperations, e \in TransportErrors}
    \cup {[op |-> "ensure_bucket_exists", bucket_name |-> "photos", max_attempts |-> n,
           delay_seconds |-> 2, outage |-> "ConnectError"] : n \in {0, 1, 3}}

\* The session cache before the call: empty, or the pair an earlier login at
\* instant 0 left.  The client has the default retry budget, or none.
InitOps ==
    /\ now = 0
    /\ call \in OpsCalls
    /\ result = Pending
    /\ earlier = <<>>
    /\ client \in {ClientWith("storage.example.com:443", <<>>, TRUE, r) : r \in {0, 3}}
    /\ signer = [access_key |-> client.access_key, secret_key |-> client.secret_key]
    /\ \E cached \in BOOLEAN :
          /\ jwt_token = IF cached THEN <<"t0">> ELSE <<>>
          /\ token_expires_at = IF cached THEN <<TokenMargin>> ELSE <<>>
    /\ tasks = [t \in Tasks |-> IdleEnsure]
    /\ history = <<>>
    /\ counters = ZeroCounters

\* The session cache and the counters after a _make_request call.
AfterTrip(trip) ==
    /\ jwt_token' = trip.token
    /\ token_expires_at' = trip.expires_at
    /\ counters' = [counters EXCEPT !.requests = @ + 1, !.issued = @ + trip.issued,
                                    !.stores = @ + trip.issued]

\* An operation with one request runs from its call to its return.
OperationRuns ==
    /\ result = Pending
    /\ \E trip \in _make_request(RequestOf(call).method, jwt_token, token_expires_at, now,
                                 OpsResponses, call.outage, client.max_retries) :
          /\ result' = Operation(call, trip.made)
          /\ history' = Append(history, Called(RequestOf(call).method, RequestOf(call).path,
                                               trip.made))
          /\ AfterTrip(trip)
    /\ UNCHANGED <<now, call, earlier, signer, client, tasks>>

\* client.py 281-300
RunBucketOperation ==
    /\ call.op \in BucketOperations
    /\ OperationRuns

\* client.py 320-413
RunObjectOperation ==
    /\ call.op \in ObjectOperations
    /\ OperationRuns

\* client.py 302-317 and 756-772
RunServiceOperation ==
    /\ call.op \in ServiceOperations
    /\ OperationRuns

\* client.py 738-739 and 751-754: ensure_bucket_exists begins.  Without an
\* attempt to make, the loop is skipped and the call fails at once.
EnsureStarts(t) ==
    /\ call.op = "ensure_bucket_exists"
    /\ tasks[t].pc = "idle"
    /\ result = Pending
    /\ IF call.max_attempts < 1
       THEN /\ result' = EnsureFailed(call.bucket_name, call.max_attempts)
            /\ tasks' = [tasks EXCEPT ![t].pc = "done"]
       ELSE /\ UNCHANGED result
            /\ tasks' = [tasks EXCEPT ![t] = [pc |-> "attempt", attempt |-> 1,
                                              stage |-> "bucket_exists",
                                              last_error |-> <<>>]]
    /\ UNCHANGED <<now, call, earlier, signer, client, jwt_token, token_expires_at,
                   history, counters>>

\* client.py 740-749: the next request of the attempt is made and answered.
EnsureRequests(t) ==
    /\ tasks[t].pc = "attempt"
    /\ \E request \in {IF tasks[t].stage = "make_bucket"
                       THEN RequestOf([op |-> "make_bucket", bucket_name |-> call.bucket_name])
                       ELSE RequestOf([op |-> "bucket_exists", bucket_name |-> call.bucket_name])} :
        \E trip \in _make_request(request.method, jwt_token, token_expires_at, now,
                                  EnsureResponses, call.outage, client.max_retries) :
          \E next \in {ensure_bucket_exists(tasks[t], trip.made, call.bucket_name,
                                            call.max_attempts, call.delay_seconds)} :
            /\ tasks' = [tasks EXCEPT ![t] = next.task]
            /\ result' = next.result
            /\ history' = Append(history, Called(request.method, request.path, trip.made))
                          \o [i \in 1..Len(next.slept) |-> Slept(next.slept[i])]
            /\ AfterTrip(trip)
    /\ UNCHANGED <<now, call, earlier, signer, client>>

\* client.py 748-749 and 740: the sleep ends and the next attempt begins.
EnsureWakes(t) ==
    /\ tasks[t].pc = "sleep"
    /\ tasks' = [tasks EXCEPT ![t].pc = "attempt", ![t].attempt = @ + 1,
                              ![t].stage = "bucket_exists"]
    /\ now' = now + call.delay_seconds
    /\ UNCHANGED <<call, result, earlier, signer, client, jwt_token, token_expires_at,
                   history, counters>>

NextOps ==
    \/ RunBucketOperation
    \/ RunObjectOperation
    \/ RunServiceOperation
    \/ EnsureStarts("A")
    \/ EnsureRequests("A")
    \/ EnsureWakes("A")

SpecOps == InitOps /\ [][NextOps]_vars

\* The event loop resumes a coroutine whose request has been answered or has
\* failed (every transport attempt ends, by the request timeout at the latest)
\* or whose sleep has ended: a step that can be taken is taken.
SpecOpsFair == SpecOps /\ WF_vars(NextOps)

(***************************************************************************)
(* The canonical forms of the signer, applied to two maps that hold the    *)
(* same entries: a map of query parameters and a reordering of it, a map   *)
(* of headers and a variant of it in insertion order, key letter case and  *)
(* value padding.  Both maps of a call are signed at the same fixed        *)
(* instant.                                                                *)
(***************************************************************************)

\* The longest map of query parameters drawn.
MaxParams == 3

\* The reorderings of a dict: the same items in every insertion order.
Reorderings(d) ==
    {s \in [1..Len(d) -> {d[i] : i \in 1..Len(d)}] :
        \A i \in 1..Len(d) : \E j \in 1..Len(d) : s[j] = d[i]}

\* Query parameters: keys with upper-case and lower-case letters, with
\* characters that quote() encodes, and values to encode.
QueryPool ==
    {<<"prefix", "a b">>, <<"Marker", "x/y">>, <<"a-", "1">>, <<"a/", "2">>,
     <<"max-keys", "10">>}

QueryMaps ==
    UNION {{s \in [1..n -> QueryPool] : \A i, j \in 1..n : s[i][1] = s[j][1] => i = j} :
              n \in 0..MaxParams}

\* str.upper() or str.lower() on every key, and whitespace around every value.
WithKeys(d, how) ==
    [i \in 1..Len(d) |->
        <<IF how = "upper" THEN StrUpper(d[i][1])
          ELSE IF how = "lower" THEN StrLower(d[i][1]) ELSE d[i][1], d[i][2]>>]

Padded(d, pad) ==
    [i \in 1..Len(d) |-> <<d[i][1], IF pad THEN " " \o d[i][2] \o "\t" ELSE d[i][2]>>]

\* Header maps: none, one, three, and one whose two keys differ in case only.
HeaderMaps ==
    {<<>>,
     <<<<"Host", "storage-public.example.com">>>>,
     <<<<"Host", "storage-public.example.com">>, <<"X-Amz-Date", "20260101T000059Z">>,
       <<"content-type", "image/jpeg">>>>,
     <<<<"Host", "a.example.com">>, <<"host", "b.example.com">>>>}

\* The variants of a header map that are dicts: no key twice.
HeaderVariants(d) ==
    {v \in {Padded(WithKeys(s, how), pad) :
                s \in Reorderings(d), how \in {"same", "upper", "lower"}, pad \in BOOLEAN} :
        \A i, j \in 1..Len(v) : v[i][1] = v[j][1] => i = j}

CanonicalCalls ==
    {[op |-> "_build_canonical_querystring", params |-> p, reordered |-> q] :
        p \in QueryMaps, q \in UNION {Reorderings(m) : m \in QueryMaps}}
    \cup
    {[op |-> o, method |-> "GET", host |-> "storage-public.example.com",
      path |-> "/bucket/obj.jpg", query_params |-> p, reordered |-> q,
      headers |-> <<<<"Host", "storage-public.example.com">>>>,
      variant |-> <<<<"Host", "storage-public.example.com">>>>, timestamp |-> <<90061>>] :
        o \in {"sign_request", "generate_presigned_url"},
        p \in {m \in QueryMaps : Len(m) <= 2},
        q \in UNION {Reorderings(m) : m \in QueryMaps}}
    \cup
    {[op |-> "sign_request", method |-> "GET", host |-> "storage-public.example.com",
      path |-> "/bucket/obj.jpg", query_params |-> <<>>, reordered |-> <<>>,
      headers |-> h, variant |-> v, timestamp |-> <<90061>>] :
        h \in HeaderMaps, v \in UNION {HeaderVariants(m) : m \in HeaderMaps}}

InitCanonical ==
    /\ now = 0
    /\ call \in {c \in CanonicalCalls :
                    /\ c.reordered \in Reorderings(IF c.op = "_build_canonical_querystring"
                                                   THEN c.params ELSE c.query_params)
                    /\ c.op = "sign_request" => c.variant \in HeaderVariants(c.headers)}
    /\ result = Pending
    /\ earlier = <<>>
    /\ signer = TestSigner
    /\ client = DefaultClient
    /\ jwt_token = <<>>
    /\ token_expires_at = <<>>
    /\ NoCoroutines

\* _signer.py 101-109, for the map and for its reordering.
RunBuildCanonicalQuerystring ==
    /\ call.op = "_build_canonical_querystring"
    /\ result = Pending
    /\ result' = [kind |-> "return",
                  value |-> _build_canonical_querystring(call.params),
                  again |-> _build_canonical_querystring(call.reordered)]
    /\ UNCHANGED <<now, call, earlier, objVars>>

\* _signer.py 23-92, for the maps and for their variants.
RunSignRequestTwice ==
    /\ call.op = "sign_request"
    /\ result = Pending
    /\ result' = [kind |-> "return",
                  value |-> sign_request(signer, call.method, call.host, call.path,
                                         call.query_params, call.headers, <<>>,
                                         call.timestamp, now),
                  again |-> sign_request(signer, call.method, call.host, call.path,
                                         call.reordered, call.variant, <<>>,
                                         call.timestamp, now)]
    /\ UNCHANGED <<now, call, earlier, objVars>>

\* _signer.py 131-214, for the map and for its reordering.
RunGeneratePresignedUrlTwice ==
    /\ call.op = "generate_presigned_url"
    /\ result = Pending
    /\ result' = [kind |-> "return",
                  value |-> generate_presigned_url(signer, call.method, call.host, call.path,
                                                   call.query_params, 3600, <<3600>>, TRUE,
                                                   call.timestamp, now),
                  again |-> generate_presigned_url(signer, call.method, call.host, call.path,
                                                   call.reordered, 3600, <<3600>>, TRUE,
                                                   call.timestamp, now)]
    /\ UNCHANGED <<now, call, earlier, objVars>>

NextCanonical ==
    \/ RunBuildCanonicalQuerystring
    \/ RunSignRequestTwice
    \/ RunGeneratePresignedUrlTwice

SpecCanonical == InitCanonical /\ [][NextCanonical]_vars

(***************************************************************************)
(* The claims                                                              *)
(***************************************************************************)

\* Whether the call asks for an expiry outside [1, 604800] in expires_in_seconds.
AsksInvalidExpiry ==
    \/ /\ call.op \in {"presigned_get_object", "presigned_put_object"}
       /\ (call.expires_in_seconds < 1 \/ call.expires_in_seconds > 604800)
    \/ /\ call.op = "generate_presigned_url"
       /\ call.expires_in_seconds # <<>>
       /\ (call.expires_in_seconds[1] < 1 \/ call.expires_in_seconds[1] > 604800)

\* C1: for every expires_in_seconds outside [1, 604800], presigned_get_object,
\* presigned_put_object and generate_presigned_url fail with InvalidExpiry, a
\* ValueError whose message references 604800, and no hash or HMAC has been
\* computed when they do.
C1_InvalidExpiryBeforeSigning ==
    (result # Pending /\ AsksInvalidExpiry) =>
        /\ result.kind = "raise"
        /\ result.exc.type = "ValueError"
        /\ result.exc.code = "InvalidExpiry"
        /\ Contains(result.exc.message, "604800")
        /\ result.fx.hmac = 0
        /\ result.fx.sha = 0

\* C1 happens: presigned_put_object has been refused an expiry of 604801 seconds.
C1_Witness ==
    /\ result # Pending
    /\ AsksInvalidExpiry
    /\ call.op = "presigned_put_object"
    /\ call.expires_in_seconds = 604801
    /\ result.kind = "raise"


\* The query string of a URL, as the <<name, value>> pairs a server would read:
\* what follows the first "?", cut at each "&", each item cut at its first "=".
QueryPairs(url) ==
    LET q == FindFirst(url, {"?"})
        items == IF q = 0 THEN <<>> ELSE Split(SubSeq(url, q + 1, Len(url)), "&")
    IN  [i \in 1..Len(items) |->
            LET eq == FindFirst(items[i], {"="})
            IN  IF eq = 0 THEN <<items[i], "">>
                ELSE <<SubSeq(items[i], 1, eq - 1), SubSeq(items[i], eq + 1, Len(items[i]))>>]

\* How many times a parameter occurs in the query string of a URL.
QueryCount(url, name) ==
    Cardinality({i \in 1..Len(QueryPairs(url)) : QueryPairs(url)[i][1] = name})

\* Whether every occurrence of a parameter has this value.
QueryAllEqual(url, name, value) ==
    \A i \in 1..Len(QueryPairs(url)) :
        QueryPairs(url)[i][1] = name => QueryPairs(url)[i][2] = value

\* The expiry a generate_presigned_url call requests.
RequestedExpiry ==
    IF call.expires_in_seconds # <<>> THEN call.expires_in_seconds[1] ELSE call.expires_in

\* C2: for all valid inputs to generate_presigned_url, whatever query_params the
\* caller supplies, the query string of the returned URL contains exactly one
\* each of X-Amz-Algorithm (AWS4-HMAC-SHA256), X-Amz-Credential, X-Amz-Date,
\* X-Amz-Expires (the requested expiry in decimal), X-Amz-SignedHeaders (host)
\* and X-Amz-Signature.
C2_ExactlyOneOfEachParameter ==
    (call.op = "generate_presigned_url" /\ result # Pending /\ result.kind = "return") =>
        /\ \A name \in {"X-Amz-Algorithm", "X-Amz-Credential", "X-Amz-Date",
                        "X-Amz-Expires", "X-Amz-SignedHeaders", "X-Amz-Signature"} :
              QueryCount(result.value, name) = 1
        /\ QueryAllEqual(result.value, "X-Amz-Algorithm", "AWS4-HMAC-SHA256")
        /\ QueryAllEqual(result.value, "X-Amz-Expires", IntToStr(RequestedExpiry))
        /\ QueryAllEqual(result.value, "X-Amz-SignedHeaders", "host")

\* C3: signing is deterministic.  A call with an explicitly fixed timestamp,
\* made again with the same arguments, whatever time has passed, gives the
\* identical output and signature; neither run reads the clock, and the
\* signer is left as it was constructed.
C3_FixedTimestampDeterministic ==
    (call.op \in {"sign_request", "generate_presigned_url"}
        /\ call.timestamp # <<>> /\ earlier # <<>> /\ result # Pending) =>
        /\ result = earlier[1]
        /\ result.fx.clock = 0
        /\ earlier[1].fx.clock = 0
        /\ signer = TestSigner

\* C3 happens: sign_request has run twice with a fixed timestamp while the
\* clock moved on.
C3_Witness ==
    /\ call.op = "sign_request"
    /\ call.timestamp = <<90061>>
    /\ earlier # <<>>
    /\ result # Pending
    /\ result.kind = "return"
    /\ now = MaxClock

\* C4: the internal-host classifier answers internal for each of 127.0.0.1,
\* localhost, 10.1.2.3, 192.168.0.5, 172.20.0.1, foo.local and foo.internal,
\* whatever the letter case and the surrounding whitespace, and answers not
\* internal for storage-public.example.com.
C4_NamedHostsClassified ==
    (call.op = "_is_internal_host" /\ result # Pending) =>
        /\ \A h \in {"127.0.0.1", "localhost", "10.1.2.3", "192.168.0.5", "172.20.0.1",
                     "foo.local", "foo.internal"} :
              call.host \in HostVariants(h) => result.value = TRUE
        /\ call.host \in HostVariants("storage-public.example.com") => result.value = FALSE

\* C4 happens: a named host in capitals and padded with whitespace has been classified.
C4_Witness ==
    /\ call.op = "_is_internal_host"
    /\ call.host = " FOO.INTERNAL\n"
    /\ result # Pending
    /\ result.value = TRUE


\* Whether text is a decimal number without sign, at most three digits long.
IsOctetText(text) ==
    /\ Len(text) \in 1..3
    /\ \A i \in 1..Len(text) : CharAt(text, i) \in {"0", "1", "2", "3", "4", "5", "6", "7", "8", "9"}
    /\ DigitsValue(text) <= 255

\* The four octets of a dotted-quad IPv4 address, <<>> for any other text.
Octets(host) ==
    LET parts == Split(host, ".")
    IN  IF Len(parts) = 4 /\ \A i \in 1..4 : IsOctetText(parts[i])
        THEN [i \in 1..4 |-> DigitsValue(parts[i])] ELSE <<>>

\* The internal hosts as the specification lists them: localhost, the loopback
\* addresses 127.0.0.0/8 and ::1, names ending in .local or .internal, and the
\* IPv4 ranges 10.0.0.0/8, 192.168.0.0/16 and 172.16.0.0/12.
ListedInternal(host) ==
    LET name == StrLower(host)
        ip == Octets(name)
    IN  \/ name \in {"localhost", "::1"}
        \/ EndsWith(name, ".local")
        \/ EndsWith(name, ".internal")
        \/ /\ ip # <<>>
           /\ \/ ip[1] = 127
              \/ ip[1] = 10
              \/ ip[1] = 192 /\ ip[2] = 168
              \/ ip[1] = 172 /\ ip[2] >= 16 /\ ip[2] <= 31

\* A browser-accessible presigned_get_object or presigned_put_object call with a
\* valid expiry that has run.
BrowserCallDone ==
    /\ call.op \in {"presigned_get_object", "presigned_put_object"}
    /\ call.browser_accessible
    /\ call.expires_in_seconds >= 1
    /\ call.expires_in_seconds <= 604800
    /\ result # Pending

\* The base URL such a call resolves to: the public endpoint when one is
\* configured, otherwise the internal endpoint.
ResolvedBase ==
    urlparse(IF client.public_base_url # <<>> THEN client.public_base_url[1]
             ELSE client.base_url)

\* C5: every browser-accessible presigned URL request whose resolved host is
\* localhost, a loopback address, a name ending in .local or .internal, or an
\* IPv4 address in 10.0.0.0/8, 192.168.0.0/16 or 172.16.0.0/12 fails with
\* RejectedInternalHost, a ValueError mentioning "internal", and returns no URL,
\* also when the host comes from the configured public endpoint.
C5_ListedInternalHostsRejected ==
    (BrowserCallDone /\ ListedInternal(hostname(ResolvedBase.netloc))) =>
        /\ result.kind = "raise"
        /\ result.exc.type = "ValueError"
        /\ result.exc.code = "RejectedInternalHost"
        /\ Contains(result.exc.message, "internal")

\* The guardrail has been handed a URL directly, by a client with a public endpoint.
GuardrailDone ==
    /\ call.op = "_validate_and_log_presigned_url"
    /\ client.public_base_url # <<>>
    /\ result # Pending

GivenHost == hostname(urlparse(call.url).netloc)

ConfiguredPublicHost ==
    IF client.public_base_url # <<>>
    THEN hostname(urlparse(client.public_base_url[1]).netloc) ELSE ""

\* C6 as first stated: with a public endpoint configured, the guardrail fails
\* with RejectedHostMismatch on every URL whose host differs, letter case
\* aside, from the public endpoint's host, and accepts every host that differs
\* from it in letter case only.
C6_MismatchAlwaysRejected ==
    GuardrailDone =>
        IF StrLower(GivenHost) # StrLower(ConfiguredPublicHost)
        THEN result.kind = "raise" /\ result.exc.code = "RejectedHostMismatch"
        ELSE result.kind = "return"

\* C6, amended: the comparison is reached only by an absolute URL whose host the
\* classifier does not take for internal, and is made only when the public
\* endpoint is one urlparse accepts and has a host.  Then a host that differs, letter case aside, fails with
\* RejectedHostMismatch, and a host equal up to letter case is accepted and the
\* URL returned as given.
C6_MismatchRejectedWhenCompared ==
    (/\ GuardrailDone
     /\ urlparse(call.url).scheme # ""
     /\ urlparse(call.url).netloc # ""
     /\ ~_is_internal_host(GivenHost)
     /\ urlparse(client.public_base_url[1]).ok
     /\ ConfiguredPublicHost # "") =>
        IF StrLower(GivenHost) # StrLower(ConfiguredPublicHost)
        THEN /\ result.kind = "raise"
             /\ result.exc.type = "ValueError"
             /\ result.exc.code = "RejectedHostMismatch"
        ELSE /\ result.kind = "return"
             /\ result.value = call.url

\* C6 happens: a URL on another public-looking host has been rejected for the mismatch.
C6_Witness ==
    /\ GuardrailDone
    /\ GivenHost = "other.example.com"
    /\ ConfiguredPublicHost = "storage-public.example.com"
    /\ result.kind = "raise"
    /\ result.exc.code = "RejectedHostMismatch"

\* The host line of a canonical request (method, path, query, host line, ...).
CanonicalHostLine(canonical_request) == Split(canonical_request, "\n")[4]

\* C7: with browser_accessible true and a public endpoint configured,
\* presigned_get_object and presigned_put_object sign against the public
\* endpoint: the returned URL has the scheme and the host of the public base
\* URL, and the host in the signed canonical request is the public endpoint's.
C7_SignsAgainstPublicEndpoint ==
    (BrowserCallDone /\ client.public_base_url # <<>> /\ result.kind = "return") =>
        /\ urlparse(result.value.url).scheme = urlparse(client.public_base_url[1]).scheme
        /\ urlparse(result.value.url).netloc = urlparse(client.public_base_url[1]).netloc
        /\ CanonicalHostLine(result.canonical_request)
              = "host:" \o urlparse(client.public_base_url[1]).netloc

\* C7 happens: a URL has been returned on a public endpoint that differs from
\* the internal endpoint in scheme and in host.
C7_Witness ==
    /\ BrowserCallDone
    /\ call.op = "presigned_get_object"
    /\ client.endpoint = "storage.example.com:443"
    /\ ~client.use_ssl
    /\ client.public_endpoint = <<"https://storage-public.example.com">>
    /\ result.kind = "return"
    /\ StartsWith(result.value.url, "https://storage-public.example.com/photo-test/")

\* C8 as first stated: with browser_accessible true and no public endpoint, the
\* call signs against the internal endpoint, emits a warning, and returns a URL
\* on the internal endpoint rather than failing.
C8_WarningNeverFatal ==
    (BrowserCallDone /\ client.public_base_url = <<>>) =>
        /\ Len(result.fx.warnings) = 1
        /\ result.kind = "return"
        /\ urlparse(result.value.url).scheme = urlparse(client.base_url).scheme
        /\ urlparse(result.value.url).netloc = urlparse(client.base_url).netloc

\* C8, amended: with browser_accessible true and no public endpoint the call
\* emits one warning and signs against the internal endpoint; it returns a URL
\* on the internal endpoint when the classifier does not take the internal
\* endpoint's host for internal, and fails with RejectedInternalHost, the
\* warning emitted all the same, when it does.  An internal endpoint that
\* urlparse refuses or that has no host fails as such, after the warning too.
C8_WarningThenGuardrail ==
    (BrowserCallDone /\ client.public_base_url = <<>>) =>
        /\ Len(result.fx.warnings) = 1
        /\ IF ~urlparse(client.base_url).ok
           THEN result.kind = "raise" /\ result.exc.code = "InvalidIPv6"
           ELSE IF urlparse(client.base_url).netloc = ""
           THEN result.kind = "raise" /\ result.exc.code = "InvalidEndpoint"
           ELSE IF _is_internal_host(hostname(urlparse(client.base_url).netloc))
           THEN /\ result.kind = "raise"
                /\ result.exc.code = "RejectedInternalHost"
           ELSE /\ result.kind = "return"
                /\ urlparse(result.value.url).scheme = urlparse(client.base_url).scheme
                /\ urlparse(result.value.url).netloc = urlparse(client.base_url).netloc
                /\ CanonicalHostLine(result.canonical_request)
                      = "host:" \o urlparse(client.base_url).netloc

\* C8 happens: without a public endpoint, a URL on the internal endpoint has
\* been returned together with the warning.
C8_Witness ==
    /\ BrowserCallDone
    /\ call.op = "presigned_put_object"
    /\ client.public_base_url = <<>>
    /\ client.endpoint = "storage.example.com:443"
    /\ result.kind = "return"
    /\ result.fx.warnings = <<BrowserWarning>>

\* The fields of an audit record and nothing else.
AuditFields == {"host", "configuredPublicHost", "expirySeconds", "bucket", "object"}

\* C9: every browser-accessible presigned URL returned to the caller comes with
\* exactly one audit record written in that call, carrying the host, the
\* configured public host, the expiry seconds, the bucket and the object and
\* nothing else, no credential and no signature in particular; a call that
\* ends in a guardrail rejection writes no audit record.
C9_OneAuditRecordPerAcceptedUrl ==
    /\ (BrowserCallDone /\ result.kind = "return") =>
          /\ Len(result.fx.log) = 1
          /\ DOMAIN result.fx.log[1] = AuditFields
          /\ result.fx.log[1].host = hostname(urlparse(result.value.url).netloc)
          /\ result.fx.log[1].configuredPublicHost = ConfiguredPublicHost
          /\ result.fx.log[1].expirySeconds = call.expires_in_seconds
          /\ result.fx.log[1].bucket = call.bucket_name
          /\ result.fx.log[1].object = call.object_name
          /\ \A f \in AuditFields \ {"expirySeconds"} :
                /\ ~Contains(result.fx.log[1][f], result.signature)
                /\ ~Contains(result.fx.log[1][f], client.secret_key)
                /\ ~Contains(result.fx.log[1][f], client.access_key)
    /\ (/\ call.op \in {"presigned_get_object", "presigned_put_object",
                        "_validate_and_log_presigned_url"}
        /\ result # Pending
        /\ result.kind = "raise") =>
          result.fx.log = <<>>

\* C9 happens: a URL on the public endpoint has been returned with its audit record.
C9_Witness ==
    /\ BrowserCallDone
    /\ call.op = "presigned_put_object"
    /\ result.kind = "return"
    /\ Len(result.fx.log) = 1
    /\ result.fx.log[1].configuredPublicHost = "storage-public.example.com"


\* The get_token calls completed so far.
TokenCalls == {history[i] : i \in 1..Len(history)}

\* A get_token call that found the session cache without a token and whose
\* login returned a token.
LoggedInFromEmpty(c) ==
    /\ c.op = "get_token"
    /\ c.cache_seen = <<<<>>, <<>>>>
    /\ c.stored # <<>>

\* A get_token call made after c1 completed and before the expires_at c1 stored.
MadeLaterBeforeExpiry(c1, c2) ==
    /\ c2.op = "get_token"
    /\ c2.began > c1.ended
    /\ c2.began_at < c1.stored[1].expires_at

\* C10 as first stated: starting from a session cache with no token, a
\* get_token call whose login returns t1 returns t1, and every later get_token
\* call made before the stored expires_at returns the same t1 and issues no
\* login request.
C10_EveryLaterCallReturnsFirstToken ==
    \A c1 \in TokenCalls :
        LoggedInFromEmpty(c1) =>
            /\ c1.kind = "return"
            /\ c1.value = c1.stored[1].token
            /\ \A c2 \in TokenCalls :
                  MadeLaterBeforeExpiry(c1, c2) =>
                      /\ c2.kind = "return"
                      /\ c2.value = c1.value
                      /\ c2.logins = 0

\* C10, amended: the later calls that return t1 without a login are those made
\* before the stored expires_at and before any other login, one already in
\* flight when the first call completed included, has written its own token
\* over t1.
C10_LaterCallReturnsTokenStillCached ==
    \A c1 \in TokenCalls :
        LoggedInFromEmpty(c1) =>
            /\ c1.kind = "return"
            /\ c1.value = c1.stored[1].token
            /\ \A c2 \in TokenCalls :
                  (MadeLaterBeforeExpiry(c1, c2) /\ c2.stores_seen = c1.store_no) =>
                      /\ c2.kind = "return"
                      /\ c2.value = c1.value
                      /\ c2.logins = 0

\* C10 happens: a first call has logged in and got t1, and a call made later,
\* after time has passed but before the expiry, has been answered t1 from the cache.
C10_Witness ==
    \E c1, c2 \in TokenCalls :
        /\ LoggedInFromEmpty(c1)
        /\ c1.value = "t1"
        /\ MadeLaterBeforeExpiry(c1, c2)
        /\ c2.stores_seen = c1.store_no
        /\ c2.began_at > c1.began_at
        /\ c2.value = "t1"
        /\ c2.logins = 0

\* The cache a call found held a token whose expiry was still ahead at that instant.
FoundFresh(c) ==
    /\ c.cache_seen[1] # <<>>
    /\ c.cache_seen[2] # <<>>
    /\ c.began_at < c.cache_seen[2][1]

\* C11: every token get_token returns is either the cached token, found with
\* now < expires_at, or the token of a login performed in that same call; and
\* when the cache is absent or now >= expires_at at the time of the call, a
\* login request is issued before any token is returned.
C11_TokenFromFreshCacheOrOwnLogin ==
    \A c \in TokenCalls :
        (c.op = "get_token" /\ c.kind = "return") =>
            IF FoundFresh(c)
            THEN /\ c.logins = 0
                 /\ c.value = c.cache_seen[1][1]
            ELSE /\ c.logins >= 1
                 /\ c.stored # <<>>
                 /\ c.value = c.stored[1].token

\* C11 happens: a call has found the cached token t1 at its expires_at, has
\* logged in again and has returned the token of that login.
C11_Witness ==
    \E c \in TokenCalls :
        /\ c.op = "get_token"
        /\ c.cache_seen[1] = <<"t1">>
        /\ c.began_at >= c.cache_seen[2][1]
        /\ c.logins >= 1
        /\ c.kind = "return"
        /\ c.value = "t2"

\* The calls whose login wrote the session cache.
Writers == {c \in TokenCalls : c.stored # <<>>}

\* A token and an expiry, as found in the cache, are the pair one login wrote,
\* the expiry being the instant of that write plus seven hours.
WrittenTogether(token, expires_at) ==
    \E w \in Writers :
        /\ token = <<w.stored[1].token>>
        /\ expires_at = <<w.stored[1].expires_at>>
        /\ w.stored[1].expires_at = w.stored_at + 7 * 3600

\* C12: in every reachable state, under any interleaving of calls, the session
\* token and its expiry are both unset or both set; when set, expires_at is the
\* instant the stored token was written plus seven hours; and the pair is
\* replaced as one, so that no call finds a token with the expiry of another refresh.
C12_TokenAndExpiryWrittenTogether ==
    /\ (jwt_token = <<>>) <=> (token_expires_at = <<>>)
    /\ jwt_token # <<>> =>
          /\ WrittenTogether(jwt_token, token_expires_at)
          /\ \E w \in Writers :
                /\ w.store_no = counters.stores
                /\ jwt_token = <<w.stored[1].token>>
                /\ token_expires_at = <<w.stored_at + 7 * 3600>>
    /\ \A c \in TokenCalls :
          \/ c.cache_seen = <<<<>>, <<>>>>
          \/ WrittenTogether(c.cache_seen[1], c.cache_seen[2])

\* C12 happens: a second login, answered at a later instant, has replaced the
\* pair of the first, and a call made in between has found the first pair.
C12_Witness ==
    /\ jwt_token = <<"t2">>
    /\ token_expires_at = <<ElapseStep + 7 * 3600>>
    /\ \E c \in TokenCalls : c.cache_seen = <<<<"t1">>, <<7 * 3600>>>>

\* Two get_token calls that ran concurrently: each began before the other ended.
Concurrent(c1, c2) ==
    /\ c1.task # c2.task
    /\ c1.began < c2.ended
    /\ c2.began < c1.ended

\* The tokens successful logins have returned so far.
TokensIssued == {"t" \o NatToStr(n) : n \in 1..counters.issued}

\* C13: when two get_token calls on the same client run concurrently and both
\* find the cache absent or stale, both may log in; each returns the token of
\* its own login; once both have completed the cache holds the token and the
\* expiry written by the call whose login response was processed last; and the
\* cached token is always one some successful login returned, never a mixture
\* and never empty.
C13_LastWriterWins ==
    /\ \A c1, c2 \in TokenCalls :
          (/\ Concurrent(c1, c2)
           /\ ~FoundFresh(c1) /\ ~FoundFresh(c2)
           /\ c1.kind = "return" /\ c2.kind = "return") =>
              /\ c1.logins >= 1 /\ c2.logins >= 1
              /\ c1.stored # <<>> /\ c2.stored # <<>>
              /\ c1.value = c1.stored[1].token
              /\ c2.value = c2.stored[1].token
              /\ c1.value # c2.value
    /\ jwt_token # <<>> =>
          /\ jwt_token[1] \in TokensIssued
          /\ \E w \in Writers :
                /\ \A v \in Writers : v.ended <= w.ended
                /\ jwt_token = <<w.stored[1].token>>
                /\ token_expires_at = <<w.stored[1].expires_at>>

\* C13 happens: two concurrent calls have both found the cache empty and both
\* logged in; the one that called first was answered last, at a later instant,
\* and the cache holds its token and expiry.
C13_Witness ==
    \E c1, c2 \in TokenCalls :
        /\ Concurrent(c1, c2)
        /\ c1.cache_seen = <<<<>>, <<>>>> /\ c2.cache_seen = <<<<>>, <<>>>>
        /\ c1.began < c2.began
        /\ c1.value = "t2" /\ c2.value = "t1"
        /\ c1.ended > c2.ended
        /\ jwt_token = <<"t2">>
        /\ token_expires_at = <<ElapseStep + 7 * 3600>>

\* The places in the history of a pipeline call where the given kind of event
\* occurred in the given step.
Wire(ev, step) ==
    {i \in 1..Len(history) : history[i].ev = ev /\ history[i].step = step}

\* C14: a login response with a non-2xx status, or without a token field, or
\* with an empty token, makes get_token fail with AuthenticationFailed
\* (AuthenticationException), and no token is returned to the caller.
C14_BadLoginResponseFails ==
    \A i \in Wire("response", "login") :
        (\/ history[i].status < 200
         \/ history[i].status > 299
         \/ history[i].token = <<>>
         \/ history[i].token = <<"">>) =>
            /\ result.kind = "raise"
            /\ result.exc.type = "AuthenticationException"
            /\ result.exc.code = "AuthenticationFailed"
            /\ tasks["A"].token = <<>>

\* The two requests a pipeline call sends through the retrying transport.
Steps == {"login", "dispatch"}

\* C15: a request sent through the retrying transport with max_retries = N is
\* attempted at most N times.  After N transport failures in a row the N-th
\* failure is raised and there is no further attempt; and when an attempt
\* k <= N gets a response, that response is returned and there is no further
\* attempt.
C15_AtMostMaxRetriesAttempts ==
    \A step \in Steps :
        /\ Cardinality(Wire("request", step)) <= client.max_retries
        /\ \A i \in Wire("request", step) : history[i].attempt < client.max_retries
        /\ (client.max_retries > 0
              /\ Cardinality(Wire("error", step)) = client.max_retries) =>
              /\ Wire("response", step) = {}
              /\ result # Pending
              /\ result.kind = "raise"
              /\ result.cause = <<RequestError(call.outage, step, client.max_retries - 1)>>
              /\ tasks["A"].pc = "done"
        /\ \A i \in Wire("response", step) :
              /\ Cardinality(Wire("request", step)) = history[i].attempt + 1
              /\ \A j \in Wire("request", step) \cup Wire("error", step) \cup Wire("sleep", step) :
                    j < i
              /\ step = "dispatch" =>
                    /\ result # Pending
                    /\ result.cause = <<>>
                    /\ result.kind = "return" => result.value[1].status = history[i].status
                    /\ result.kind = "raise" => result.status_code = <<history[i].status>>

\* C15 happens: with max_retries = 3 the dispatched request has failed three
\* times; the third failure has been raised and three requests were sent.
C15_Witness ==
    /\ client.max_retries = 3
    /\ Cardinality(Wire("error", "dispatch")) = 3
    /\ Cardinality(Wire("request", "dispatch")) = 3
    /\ result # Pending
    /\ result.kind = "raise"
    /\ result.cause = <<RequestError(call.outage, "dispatch", 2)>>
    /\ tasks["A"].pc = "done"

\* C16: when every transport attempt of a pipeline call fails, in the login
\* that obtains the token or in the dispatch itself, the call ends by raising
\* that last transport error (TransportError) to its caller.
C16_ExhaustionSurfacesTransportError ==
    \A step \in Steps :
        (client.max_retries > 0
           /\ Cardinality(Wire("error", step)) = client.max_retries) =>
            /\ result # Pending
            /\ result.kind = "raise"
            /\ result.exc.code = "TransportError"
            /\ result.exc.type = call.outage
            /\ result.cause = <<RequestError(call.outage, step, client.max_retries - 1)>>

\* C17: HTTP error statuses are never retried.  Whenever the transport gets a
\* response, of any status, 4xx and 5xx included, the retry loop ends with that
\* attempt: the request was sent once after the last transport failure, the
\* response answers that sending, and the request is not sent again.
C17_ResponsesNeverRetried ==
    \A step \in Steps :
        \A i \in Wire("response", step) :
            /\ i > 1
            /\ history[i - 1].ev = "request"
            /\ history[i - 1].step = step
            /\ history[i - 1].attempt = history[i].attempt
            /\ \A e \in Wire("error", step) : e < i - 1
            /\ Cardinality({r \in Wire("request", step) :
                                \A e \in Wire("error", step) : r > e}) = 1
            /\ \A j \in (i + 1)..Len(history) : history[j].step # step
            /\ Cardinality(Wire("response", step)) = 1
            /\ step = "dispatch" =>
                  /\ i = Len(history)
                  /\ tasks["A"].pc = "done"
                  /\ result # Pending

\* C17 happens: after one transport failure the dispatched request was sent
\* again and answered 503; the call has ended with that response and two
\* requests sent.
C17_Witness ==
    /\ Cardinality(Wire("error", "dispatch")) = 1
    /\ Cardinality(Wire("request", "dispatch")) = 2
    /\ \E i \in Wire("response", "dispatch") : history[i].status = 503
    /\ client.max_retries = 3
    /\ tasks["A"].pc = "done"
    /\ result # Pending /\ result.kind = "raise" /\ result.status_code = <<503>>

\* C18: the final response of an authenticated pipeline call with a status
\* >= 400 becomes a ServerError carrying that very status, with the message
\* 'Resource not found' for 404 and a message naming the status otherwise; a
\* final response with a status < 400 is returned to the caller and nothing is raised.
C18_StatusClassified ==
    \A i \in Wire("response", "dispatch") :
        /\ result # Pending
        /\ IF history[i].status >= 400
           THEN /\ result.kind = "raise"
                /\ result.exc.type = "ServerException"
                /\ result.exc.code = "ServerError"
                /\ result.status_code = <<history[i].status>>
                /\ IF history[i].status = 404
                   THEN result.exc.message = "Resource not found"
                   ELSE /\ result.exc.message # "Resource not found"
                        /\ Contains(result.exc.message, NatToStr(history[i].status))
           ELSE /\ result.kind = "return"
                /\ result.value # <<>>
                /\ result.value[1].status = history[i].status

\* C18 happens: a call was answered 404 and has raised the ServerError with
\* status 404 and the message 'Resource not found'.
C18_Witness ==
    /\ \E i \in Wire("response", "dispatch") : history[i].status = 404
    /\ result # Pending
    /\ result.kind = "raise"
    /\ result.exc.type = "ServerException"
    /\ result.status_code = <<404>>
    /\ result.exc.message = "Resource not found"

\* The token _get_auth_token returned in this call: the token of the login
\* response, when there was a login, and the token found in the cache otherwise.
TokenGiven ==
    IF Wire("response", "login") # {}
    THEN history[CHOOSE i \in Wire("response", "login") : TRUE].token[1]
    ELSE "t0"

\* The entries of a header dict under the name Authorization.
AuthorizationEntries(headers) ==
    {k \in 1..Len(headers) : headers[k][1] = "Authorization"}

C20_BackoffDoublesUpToCap ==
    \A step \in Steps :
        /\ \A i \in Wire("sleep", step) :
              /\ i > 1
              /\ history[i - 1].ev = "error"
              /\ history[i - 1].step = step
              /\ history[i - 1].attempt = history[i].attempt
              /\ history[i].attempt < client.max_retries - 1
              /\ history[i].seconds * 1000
                    = IF 1000 * (2 ^ history[i].attempt) < 10000
                      THEN 1000 * (2 ^ history[i].attempt) ELSE 10000
              /\ history[i].seconds <= 10
              /\ \A j \in Wire("sleep", step) :
                    j < i => history[j].seconds <= history[i].seconds
        /\ \A i \in Wire("error", step) :
              IF history[i].attempt < client.max_retries - 1
              THEN i < Len(history) /\ history[i + 1].ev = "sleep"
              ELSE i = Len(history)
        /\ \A i \in Wire("response", step) :
              i < Len(history) => history[i + 1].ev # "sleep"

\* The sleeps of a step, in the order they were taken.
RECURSIVE SleepsUpTo(_, _)
SleepsUpTo(step, n) ==
    IF n = 0 THEN <<>>
    ELSE IF history[n].ev = "sleep" /\ history[n].step = step
    THEN Append(SleepsUpTo(step, n - 1), history[n].seconds)
    ELSE SleepsUpTo(step, n - 1)

\* C20 happens: with max_retries = 7 the dispatched request has failed seven
\* times, with sleeps of 1, 2, 4, 8, 10 and 10 seconds in between and none
\* after the last failure.
C20_Witness ==
    /\ client.max_retries = 7
    /\ Cardinality(Wire("error", "dispatch")) = 7
    /\ SleepsUpTo("dispatch", Len(history)) = <<1, 2, 4, 8, 10, 10>>
    /\ history[Len(history)].ev = "error"
    /\ tasks["A"].pc = "done"

\* The outcome of the _make_request call that ended the operation.
LastMade == history[Len(history)].made

\* The operation has ended and its last request got a response of status >= 400.
EndedOnErrorStatus ==
    /\ result # Pending
    /\ history # <<>>
    /\ LastMade.kind = "raise"
    /\ LastMade.exc.type = "ServerException"
    /\ LastMade.status_code # <<>>
    /\ LastMade.status_code[1] >= 400

\* C21: remove_object absorbs a 404: when the delete request ends with status
\* 404 the call returns normally, and when it ends with any other status >= 400
\* the ServerException is propagated unchanged.  No other operation turns a
\* response of status >= 400 into a normal return of data: after such a
\* response an operation other than remove_object raises, or is one of
\* bucket_exists (on 404), health and health_check_buckets answering false.
C21_OnlyRemoveObjectAbsorbs404 ==
    EndedOnErrorStatus =>
        IF call.op = "remove_object"
        THEN IF LastMade.status_code = <<404>>
             THEN result.kind = "return" /\ result.value = <<>>
             ELSE result = LastMade
        ELSE result.kind = "return" =>
                /\ result.value = <<FALSE>>
                /\ \/ call.op = "bucket_exists" /\ LastMade.status_code = <<404>>
                   \/ call.op \in {"health", "health_check_buckets"}

\* C21 happens: remove_object has returned normally after the delete request
\* was answered 404.
C21_Witness ==
    /\ call.op = "remove_object"
    /\ EndedOnErrorStatus
    /\ LastMade.status_code = <<404>>
    /\ result.kind = "return"

\* The positions of history where ensure_bucket_exists slept.
EnsureSleeps == {i \in 1..Len(history) : history[i].ev = "sleep"}

\* The request at position i of history was a bucket_exists check, or make_bucket.
IsCheck(i) == history[i].ev = "call" /\ history[i].method = "HEAD"

IsMake(i) == history[i].ev = "call" /\ history[i].method = "PUT"

\* The bucket_exists check at position i reported true, or false.
ReportedTrue(i) == IsCheck(i) /\ history[i].made.kind = "return"

ReportedFalse(i) ==
    /\ IsCheck(i)
    /\ history[i].made.kind = "raise"
    /\ history[i].made.exc.type = "ServerException"
    /\ history[i].made.status_code = <<404>>

\* The request at position i ended in an exception inside ensure_bucket_exists.
RaisedInAttempt(i) ==
    /\ history[i].ev = "call"
    /\ history[i].made.kind = "raise"
    /\ ~ReportedFalse(i)

\* The attempt, counted from 1, that position i of history belongs to.
AttemptOf(i) == 1 + Cardinality({j \in EnsureSleeps : j < i})

\* C22: ensure_bucket_exists runs the sequence bucket_exists, make_bucket,
\* bucket_exists at most max_attempts times, sleeping delay_seconds between two
\* attempts and not after the last; an exception raised in an attempt that is
\* not the last is swallowed and the next attempt runs; the call returns as
\* soon as a bucket_exists check reports true, with no request after it; and
\* it raises only when max_attempts attempts have run.
C22_EnsureRetriesWholeSequence ==
    call.op = "ensure_bucket_exists" =>
        /\ \A i \in 1..Len(history) : AttemptOf(i) <= call.max_attempts
        /\ \A i \in EnsureSleeps :
              /\ history[i].seconds = call.delay_seconds
              /\ i > 1 /\ history[i - 1].ev = "call"
              /\ AttemptOf(i) < call.max_attempts
              /\ i = Len(history) => result = Pending
              /\ i < Len(history) => IsCheck(i + 1)
        /\ history # <<>> => IsCheck(1)
        /\ \A i \in 1..Len(history) :
              /\ IsMake(i) => /\ i > 1 /\ ReportedFalse(i - 1)
                              /\ i > 2 => ~IsMake(i - 2)
              /\ (IsCheck(i) /\ i > 1) =>
                    \/ history[i - 1].ev = "sleep"
                    \/ IsMake(i - 1) /\ history[i - 1].made.kind = "return"
              /\ (RaisedInAttempt(i) /\ AttemptOf(i) < call.max_attempts) =>
                    i < Len(history) /\ history[i + 1].ev = "sleep"
              /\ ReportedTrue(i) =>
                    i = Len(history) /\ result # Pending /\ result.kind = "return"
        /\ (result # Pending /\ result.kind = "return") =>
              history # <<>> /\ ReportedTrue(Len(history))
        /\ (result # Pending /\ result.kind = "raise") =>
              \/ call.max_attempts < 1 /\ history = <<>>
              \/ /\ history # <<>>
                 /\ AttemptOf(Len(history)) = call.max_attempts
                 /\ history[Len(history)].ev = "call"

\* C22 happens: with three attempts allowed, the first check failed with
\* status 500, two seconds were slept, and the second attempt found no bucket,
\* made it, and found it.
C22_Witness ==
    /\ call.op = "ensure_bucket_exists"
    /\ call.max_attempts = 3
    /\ Len(history) = 5
    /\ RaisedInAttempt(1) /\ history[1].made.status_code = <<500>>
    /\ history[2].ev = "sleep" /\ history[2].seconds = 2
    /\ ReportedFalse(3)
    /\ IsMake(4)
    /\ ReportedTrue(5)
    /\ result # Pending /\ result.kind = "return"

\* A single-request operation has ended; its request got a response of the
\* given status.
AnsweredWith(op, status) ==
    /\ call.op = op
    /\ result # Pending
    /\ Len(history) = 1
    /\ \/ /\ status < 400
          /\ LastMade.kind = "return"
          /\ LastMade.value[1].status = status
       \/ /\ status >= 400
          /\ LastMade.kind = "raise"
          /\ LastMade.exc.type = "ServerException"
          /\ LastMade.status_code = <<status>>

\* The statuses a bucket or object endpoint answers with in the model.
AnswerStatuses == {200, 204, 302, 400, 403, 404, 500}

\* C23: on a final response of status 404, get_object and stat_object raise
\* ObjectNotFoundException, with status 404 and code NoSuchKey and a message
\* naming the bucket and the object; bucket_exists returns false on 404 and
\* true on any status below 400; on every other status >= 400 each of the
\* three raises the ServerException of _make_request, with its status.
C23_NotFoundSpecialised ==
    \A status \in AnswerStatuses :
        /\ \A op \in {"get_object", "stat_object"} :
              AnsweredWith(op, status) =>
                 IF status = 404
                 THEN /\ result.kind = "raise"
                      /\ result.exc.type = "ObjectNotFoundException"
                      /\ result.exc.code = "NoSuchKey"
                      /\ result.status_code = <<404>>
                      /\ Contains(result.exc.message, "'" \o call.bucket_name \o "'")
                      /\ Contains(result.exc.message, "'" \o call.object_name \o "'")
                 ELSE status >= 400 =>
                      /\ result = LastMade
                      /\ result.exc.type = "ServerException"
                      /\ result.status_code = <<status>>
        /\ AnsweredWith("bucket_exists", status) =>
              IF status = 404 THEN result.kind = "return" /\ result.value = <<FALSE>>
              ELSE IF status < 400 THEN result.kind = "return" /\ result.value = <<TRUE>>
              ELSE /\ result = LastMade
                   /\ result.exc.type = "ServerException"
                   /\ result.status_code = <<status>>

\* C23 happens: stat_object has raised ObjectNotFoundException after a 404.
C23_Witness ==
    /\ AnsweredWith("stat_object", 404)
    /\ result.kind = "raise"
    /\ result.exc.type = "ObjectNotFoundException"

\* C24: presigned URL generation (presigned_get_object, presigned_put_object),
\* whether it succeeds or fails, performs no network call: no step of it sends
\* a login or any other transport request, and the session token and its
\* expiry are after it what they were before, cached or not, expired or not.
C24_PresigningStaysLocal ==
    [][(call.op \in {"presigned_get_object", "presigned_put_object"}) =>
          /\ jwt_token' = jwt_token
          /\ token_expires_at' = token_expires_at
          /\ history' = history
          /\ counters' = counters
          /\ history = <<>>
          /\ counters.requests = 0
          /\ result' # Pending => result'.fx.requests = 0]_vars

\* C24 happens: presigned_put_object has returned a URL while the cached
\* session token had expired.
C24_Witness ==
    /\ call.op = "presigned_put_object"
    /\ result # Pending
    /\ result.kind = "return"
    /\ jwt_token = <<"t0">>
    /\ token_expires_at # <<>>
    /\ now > token_expires_at[1]
    /\ counters.requests = 0
    /\ history = <<>>

\* C25: after construction no operation of the client changes the
\* configuration: endpoint and base URL, public endpoint and public base URL,
\* access key, secret key, username, password, TLS flag, timeout and
\* max_retries, and the credentials of the signer made from them, are in every
\* step what they were before it, while logins succeed, fail, are retried and
\* replace the session token and its expiry.
C25_ConfigurationImmutable ==
    [][client' = client /\ signer' = signer]_vars

\* C25 happens: the session token has been stored twice, each login after a
\* retry, by a client that still has the configuration it was constructed with.
C25_Witness ==
    /\ counters.stores = 2
    /\ jwt_token = <<"t2">>
    /\ history # <<>>
    /\ history[Len(history)].slept > 0
    /\ client = ClientWith(client.endpoint, <<>>, client.use_ssl, 2)
    /\ signer = TestSigner

\* A presigned-URL call has ended in a validation failure.
ValidationFailed ==
    /\ call.op \in {"presigned_get_object", "presigned_put_object",
                    "_validate_and_log_presigned_url"}
    /\ result # Pending
    /\ result.kind = "raise"
    /\ result.exc.code \in {"InvalidExpiry", "InvalidUrl", "RejectedInternalHost",
                            "RejectedHostMismatch"}

\* Nothing of the client has changed and no audit record has been written.
NothingWrittenOrChanged ==
    /\ result.fx.log = <<>>
    /\ result.fx.requests = 0
    /\ history = <<>>
    /\ counters = ZeroCounters
    /\ signer = TestSigner
    /\ \/ jwt_token = <<>> /\ token_expires_at = <<>>
       \/ jwt_token = <<"t0">> /\ token_expires_at = <<7 * 3600>>

\* The call asked for a browser-accessible URL of a client without a public endpoint.
BrowserWithoutPublicEndpoint ==
    /\ call.op \in {"presigned_get_object", "presigned_put_object"}
    /\ call.browser_accessible
    /\ client.public_base_url = <<>>

\* C26: a presigned-URL validation failure (invalid expiry, invalid URL,
\* rejected internal host, rejected host mismatch) surfaces with no partial
\* side effects: in a call that ends with one of these errors no warning has
\* been emitted, no audit log record has been written and no client state has
\* changed.
C26_FailureWithoutSideEffects ==
    ValidationFailed =>
        /\ result.fx.warnings = <<>>
        /\ NothingWrittenOrChanged

\* C26, amended: in a call that ends with one of these errors no audit log
\* record has been written and no client state has changed.  A warning has
\* been emitted in exactly one case: the expiry was valid, the URL was to be
\* browser-accessible and no public endpoint is configured; the warning comes
\* before the signing, so a rejection by the guardrail follows it.
C26_FailureAfterWarningOnly ==
    ValidationFailed =>
        /\ result.fx.warnings
              = IF BrowserWithoutPublicEndpoint /\ result.exc.code # "InvalidExpiry"
                THEN <<BrowserWarning>> ELSE <<>>
        /\ NothingWrittenOrChanged

\* C26 happens: a client without a public endpoint, its endpoint localhost:9000,
\* has been refused a browser-accessible URL for the internal host, after the
\* warning and without an audit record.
C26_Witness ==
    /\ ValidationFailed
    /\ BrowserWithoutPublicEndpoint
    /\ client.endpoint = "localhost:9000"
    /\ result.exc.code = "RejectedInternalHost"
    /\ result.fx.warnings = <<BrowserWarning>>
    /\ result.fx.log = <<>>

\* The <<name, value>> pairs of the canonical query string that was signed.
SignedPairs == QueryPairs("?" \o result.signed_query)

\* The parameters the signer embeds before signing.
EmbeddedParameters ==
    {"X-Amz-Algorithm", "X-Amz-Credential", "X-Amz-Date", "X-Amz-Expires",
     "X-Amz-SignedHeaders"}

\* C27: in the presigned-URL variant X-Amz-Algorithm, X-Amz-Credential,
\* X-Amz-Date, X-Amz-Expires and X-Amz-SignedHeaders, together with every query
\* parameter the caller supplies, are part of the canonical query string that
\* is signed; X-Amz-Signature is added after the signature is computed and is
\* not part of the signed input; every query parameter of the returned URL
\* other than X-Amz-Signature was covered by the signature; and host is the
\* only signed header.
C27_SignatureCoversAllButItself ==
    (call.op = "generate_presigned_url" /\ result # Pending /\ result.kind = "return") =>
        /\ Split(result.canonical_request, "\n")[3] = result.signed_query
        /\ \A name \in EmbeddedParameters :
              \E i \in 1..Len(SignedPairs) : SignedPairs[i][1] = name
        /\ \A k \in 1..Len(call.query_params) :
              \E i \in 1..Len(SignedPairs) :
                 /\ SignedPairs[i][1] = quote(call.query_params[k][1])
                 /\ SignedPairs[i][2] = quote(call.query_params[k][2])
        /\ \A i \in 1..Len(SignedPairs) : SignedPairs[i][1] # "X-Amz-Signature"
        /\ \A j \in 1..Len(QueryPairs(result.value)) :
              QueryPairs(result.value)[j][1] # "X-Amz-Signature" =>
                 \E i \in 1..Len(SignedPairs) : SignedPairs[i] = QueryPairs(result.value)[j]
        /\ QueryCount(result.value, "X-Amz-Signature") = 1
        /\ QueryAllEqual(result.value, "X-Amz-Signature", result.signature)
        /\ Split(result.canonical_request, "\n")[4] = "host:" \o call.host
        /\ Split(result.canonical_request, "\n")[6] = "host"

\* Where the item of key k stands when the items of d are in ascending order of key.
RankOf(d, k) == 1 + Cardinality({j \in 1..Len(d) : StrLess(d[j][1], k)})

\* C28: the canonical query string is sorted by key and independent of the
\* order in which the parameters were supplied: for two maps with the same
\* key/value pairs inserted in different orders _build_canonical_querystring
\* returns the same string, its items key=value, percent-encoded, in ascending
\* order of key and joined by "&", the empty string for an empty map; and
\* sign_request and generate_presigned_url return the same signature, and the
\* same output, for both.
C28_CanonicalQueryOrderIndependent ==
    /\ (call.op = "_build_canonical_querystring" /\ result # Pending) =>
          /\ result.value = result.again
          /\ IF call.params = <<>> THEN result.value = ""
             ELSE /\ Len(Split(result.value, "&")) = Len(call.params)
                  /\ \A i \in 1..Len(call.params) :
                        Split(result.value, "&")[RankOf(call.params, call.params[i][1])]
                           = quote(call.params[i][1]) \o "=" \o quote(call.params[i][2])
    /\ (call.op \in {"sign_request", "generate_presigned_url"} /\ result # Pending
           /\ call.headers = call.variant) =>
          /\ result.value.kind = "return"
          /\ result.value.signature = result.again.signature
          /\ result.value.value = result.again.value

\* C28 happens: three parameters supplied in descending order of key and in
\* another order have given the same string, in ascending order of key.
C28_Witness ==
    /\ call.op = "_build_canonical_querystring"
    /\ call.params = <<<<"a/", "2">>, <<"a-", "1">>, <<"Marker", "x/y">>>>
    /\ call.reordered = <<<<"a-", "1">>, <<"Marker", "x/y">>, <<"a/", "2">>>>
    /\ result # Pending
    /\ result.value = "Marker=x%2Fy&a-=1&a%2F=2"
    /\ result.again = "Marker=x%2Fy&a-=1&a%2F=2"

\* The keys of a set in ascending order.
RECURSIVE AscendingKeys(_)
AscendingKeys(K) ==
    IF K = {} THEN <<>>
    ELSE LET least == CHOOSE x \in K : \A y \in K \ {x} : StrLess(x, y)
         IN  <<least>> \o AscendingKeys(K \ {least})

\* The lower-cased keys of the headers of the call.
LowerCasedKeys == {StrLower(call.headers[i][1]) : i \in 1..Len(call.headers)}

\* C29: sign_request returns exactly two entries, Authorization and X-Amz-Date;
\* the SignedHeaders element of Authorization is the list of the lower-cased
\* keys of the supplied headers, in ascending order and joined by ";"; and the
\* result is the same for header maps that differ only in the letter case of
\* keys, in whitespace around values, or in insertion order.
C29_SignRequestHeaderVariants ==
    (call.op = "sign_request" /\ result # Pending /\ call.query_params = call.reordered) =>
        /\ result.value.kind = "return"
        /\ Len(result.value.value) = 2
        /\ result.value.value[1][1] = "Authorization"
        /\ result.value.value[2][1] = "X-Amz-Date"
        /\ Contains(result.value.value[1][2],
                    ", SignedHeaders=" \o Join(";", AscendingKeys(LowerCasedKeys))
                       \o ", Signature=")
        /\ result.again.value = result.value.value

\* The host of the URL handed to the guardrail.
GuardedUrl == urlparse(call.url)

\* C30: the guardrail applies its checks in a fixed order: the absolute-URL
\* check, then the internal-host check, then the comparison with the public
\* host, then the audit log.  A URL that is not absolute fails as such whatever
\* its host; a URL whose host is classified internal fails with the
\* internal-host rejection, its message containing "internal", also when the
\* host differs from the public host; only then a host that differs from the
\* public host fails with the mismatch (a public endpoint urlparse refuses
\* fails there as well); and only an accepted URL is logged.
\* So a browser-accessible URL requested from a client whose public endpoint
\* parses and is itself classified internal (e.g. http://127.0.0.1:9000) fails with the
\* internal-host rejection, never with a mismatch and never with a URL.
C30_GuardrailCheckOrder ==
    /\ (call.op = "_validate_and_log_presigned_url" /\ result # Pending /\ GuardedUrl.ok) =>
          IF GuardedUrl.scheme = "" \/ GuardedUrl.netloc = ""
          THEN result.kind = "raise" /\ result.exc.code = "InvalidUrl" /\ result.fx.log = <<>>
          ELSE IF _is_internal_host(hostname(GuardedUrl.netloc))
          THEN /\ result.kind = "raise"
               /\ result.exc.code = "RejectedInternalHost"
               /\ Contains(result.exc.message, "internal")
               /\ result.fx.log = <<>>
          ELSE IF client.public_base_url # <<>> /\ ~urlparse(client.public_base_url[1]).ok
          THEN result.kind = "raise" /\ result.exc.code = "InvalidIPv6" /\ result.fx.log = <<>>
          ELSE IF ConfiguredPublicHost # ""
                  /\ StrLower(hostname(GuardedUrl.netloc)) # StrLower(ConfiguredPublicHost)
          THEN /\ result.kind = "raise"
               /\ result.exc.code = "RejectedHostMismatch"
               /\ result.fx.log = <<>>
          ELSE result.kind = "return" /\ Len(result.fx.log) = 1
    /\ (BrowserCallDone /\ client.public_base_url # <<>>
           /\ urlparse(client.public_base_url[1]).ok
           /\ _is_internal_host(ConfiguredPublicHost)) =>
          /\ result.kind = "raise"
          /\ result.exc.type = "ValueError"
          /\ result.exc.code = "RejectedInternalHost"
          /\ Contains(result.exc.message, "internal")
          /\ result.fx.log = <<>>

\* C30 happens: a client whose public endpoint is http://127.0.0.1:9000 has been
\* refused a browser-accessible URL for the internal host.
C30_Witness ==
    /\ BrowserCallDone
    /\ call.op = "presigned_get_object"
    /\ client.public_endpoint = <<"http://127.0.0.1:9000">>
    /\ result.kind = "raise"
    /\ result.exc.code = "RejectedInternalHost"

\* A presigned_get_object or presigned_put_object call with browser_accessible
\* false that has run.
NonBrowserCallDone ==
    /\ call.op \in {"presigned_get_object", "presigned_put_object"}
    /\ ~call.browser_accessible
    /\ result # Pending

\* The internal base URL as presigning parses it (client.py 669-670).
InternalBase == urlparse(client.base_url)

\* What a call with browser_accessible false returns: a URL on the internal
\* endpoint, signed for its host, whatever the classifier makes of that host.
ReturnedOnInternalEndpoint ==
    /\ result.kind = "return"
    /\ urlparse(result.value.url).scheme = InternalBase.scheme
    /\ urlparse(result.value.url).netloc = InternalBase.netloc
    /\ CanonicalHostLine(result.canonical_request) = "host:" \o InternalBase.netloc

RefreshFailsNow ==
    /\ Len(history') = Len(history) + 1
    /\ history'[Len(history')].kind = "raise"

\* The step writes the session cache.
CacheWritten == jwt_token' # jwt_token \/ token_expires_at' # token_expires_at

\* C32: a refresh that fails leaves the session cache as it is.  The step in
\* which a get_token call ends with an exception, always AuthenticationFailed
\* (an error status, a response without token, a body that is not JSON, the
\* transport retries exhausted), leaves the token and its expiry what they
\* were just before; and whatever the interleaving of two coroutines, the cache
\* is written only by the step in which a call returns the token it stores, so
\* a failing refresh never clears or overwrites what a concurrent successful
\* refresh stored.
C32_FailedRefreshLeavesCache ==
    [][/\ RefreshFailsNow =>
             /\ history'[Len(history')].exc.code = "AuthenticationFailed"
             /\ history'[Len(history')].stored = <<>>
             /\ jwt_token' = jwt_token
             /\ token_expires_at' = token_expires_at
       /\ CacheWritten =>
             /\ Len(history') = Len(history) + 1
             /\ history'[Len(history')].kind = "return"
             /\ jwt_token' = <<history'[Len(history')].value>>
             /\ token_expires_at' = <<now + TokenMargin>>]_vars

\* C32 happens: two refreshes of an expired session overlapped; one stored a
\* fresh token, the other then failed on a body that is not JSON, and the cache
\* holds the fresh token and its expiry.
C32_Witness ==
    \E i, j \in 1..Len(history) :
        /\ i < j
        /\ history[i].kind = "return"
        /\ history[i].stored # <<>>
        /\ history[i].cache_seen = <<<<"t0">>, <<0>>>>
        /\ history[j].kind = "raise"
        /\ history[j].task # history[i].task
        /\ history[j].began < history[i].ended
        /\ Contains(history[j].exc.message, "Expecting value")
        /\ jwt_token = <<history[i].stored[1].token>>
        /\ token_expires_at = <<history[i].stored[1].expires_at>>

\* The finished pipeline call went to the retrying transport for the given step.
\* No step of a call moves the clock, and only a login that succeeds writes the
\* cache, so a cache that is not valid at the end was not valid at the start
\* and the login was asked for; the dispatch is asked for once a token is
\* there and the method is supported.
TransportCalled(step) ==
    /\ result # Pending
    /\ IF step = "login"
       THEN Wire("request", "login") # {} \/ ~CacheValid(jwt_token, token_expires_at, now)
       ELSE /\ call.op = "_make_request"
            /\ call.method \in SupportedMethods
            /\ tasks["A"].token # <<>>

\* The last thing the transport saw in the given step: a response or an error.
LastOutcome(step) == Max(Wire("response", step) \cup Wire("error", step))

\* C33: whatever max_retries is configured, a call to the retrying transport
\* makes at least one attempt and ends either by returning the response of an
\* attempt or by raising the transport error of its last attempt; it never
\* returns without a response.
C33_TransportReturnsResponseOrRaises ==
    \A step \in Steps :
        TransportCalled(step) =>
            /\ Wire("request", step) # {}
            /\ Wire("response", step) \cup Wire("error", step) # {}
            /\ \/ history[LastOutcome(step)].ev = "response"
               \/ /\ history[LastOutcome(step)].ev = "error"
                  /\ result.kind = "raise"
                  /\ result.cause = history[LastOutcome(step)].error
            /\ result.exc.type # "AttributeError"
            /\ ~Contains(result.exc.message, "NoneType")

\* Everything the transport saw of the given step.
WireOf(step) == {i \in 1..Len(history) : history[i].step = step}

\* C34: in the request pipeline the token step comes strictly before the
\* dispatch.  The main request goes to the transport only in a _make_request
\* call with a supported method, after get_token has returned a token in that
\* call: from a cache still valid, or from a login whose response carried it,
\* everything of the login lying before everything of the dispatch, and the
\* request carries that token.  A call whose token step fails sends no main
\* request and ends with the authentication error; a call with an unsupported
\* method sends no main request either and, its token obtained, ends with
\* ValueError.
C34_TokenStepPrecedesDispatch ==
    /\ WireOf("dispatch") # {} =>
          /\ call.op = "_make_request"
          /\ call.method \in SupportedMethods
          /\ tasks["A"].token # <<>>
          /\ \A i \in WireOf("dispatch") : \A j \in WireOf("login") : j < i
          /\ IF Wire("request", "login") = {}
             THEN CacheValid(jwt_token, token_expires_at, now) /\ jwt_token = tasks["A"].token
             ELSE \E j \in Wire("response", "login") :
                     /\ history[j].status < 400
                     /\ history[j].token = tasks["A"].token
                     /\ j = Max(WireOf("login"))
          /\ \A i \in Wire("request", "dispatch") :
                DictGet(history[i].headers[1], "Authorization") = "Bearer " \o tasks["A"].token[1]
    /\ (result # Pending /\ tasks["A"].token = <<>>) =>
          /\ WireOf("dispatch") = {}
          /\ result.kind = "raise"
          /\ result.exc.type = "AuthenticationException"
          /\ result.exc.code = "AuthenticationFailed"
    /\ (result # Pending /\ result.exc.type = "AuthenticationException") =>
          /\ WireOf("dispatch") = {}
          /\ tasks["A"].token = <<>>
    /\ (call.op = "_make_request" /\ call.method \notin SupportedMethods) =>
          /\ WireOf("dispatch") = {}
          /\ (result # Pending /\ tasks["A"].token # <<>>) =>
                /\ result.kind = "raise"
                /\ result.exc.type = "ValueError"
                /\ result.exc.message = "Unsupported HTTP method: " \o call.method

\* C34 happens: a PUT with an expired session has logged in, been given t1, and
\* only then sent its request, which the server answered.
C34_Witness ==
    /\ call.op = "_make_request"
    /\ call.method = "PUT"
    /\ Wire("response", "login") # {}
    /\ tasks["A"].token = <<"t1">>
    /\ Wire("request", "dispatch") # {}
    /\ result # Pending
    /\ result.kind = "return"

\* A browser-accessible call of a client with a public endpoint has run.
BrowserPublicCallDone == BrowserCallDone /\ client.public_base_url # <<>>

\* The public base URL as presigning parses it (client.py 669-670).
PublicBase == urlparse(client.public_base_url[1])

\* The call ended in the internal-host rejection, or returned a URL with the
\* scheme and the host of the public endpoint.
RejectedInternalOrOnPublicHost ==
    IF _is_internal_host(hostname(PublicBase.netloc))
    THEN /\ result.kind = "raise"
         /\ result.exc.code = "RejectedInternalHost"
    ELSE /\ result.kind = "return"
         /\ urlparse(result.value.url).scheme = PublicBase.scheme
         /\ hostname(urlparse(result.value.url).netloc) = hostname(PublicBase.netloc)
         /\ result.fx.log[1].host = hostname(PublicBase.netloc)

C36_ClassifierHasNoFalsePositives ==
    (call.op = "_is_internal_host" /\ result # Pending) =>
        /\ result.value = TRUE => ListedInternal(Strip(call.host))
        /\ \A h \in {"172.15.0.1", "172.32.0.1", "11.0.0.1", "10.example.com",
                     "172.20.example.com"} :
              call.host \in HostVariants(h) => result.value = FALSE

\* The requests of ensure_bucket_exists that ended in an exception the loop caught.
EnsureRaised == {i \in 1..Len(history) : RaisedInAttempt(i)}

\* What ensure_bucket_exists has done so far is within its bounds, and its
\* result, if it has one, is the one the loop chooses.
EnsureWithinBounds ==
    /\ Cardinality({i \in 1..Len(history) : IsMake(i)}) <= call.max_attempts
    /\ Cardinality({i \in 1..Len(history) : IsCheck(i)}) <= 2 * call.max_attempts
    /\ (result # Pending /\ result.kind = "raise") =>
          IF EnsureRaised # {}
          THEN result = history[Max(EnsureRaised)].made
          ELSE /\ result.exc.type = "RuntimeError"
               /\ Contains(result.exc.message, "'" \o call.bucket_name \o "'")
               /\ Contains(result.exc.message,
                           "after " \o IntToStr(call.max_attempts) \o " attempts")
    /\ (result # Pending /\ result.kind = "return") =>
          history # <<>> /\ ReportedTrue(Len(history))

\* The call is over.
EnsureOver == call.op = "ensure_bucket_exists" => result # Pending

\* C37: ensure_bucket_exists always terminates, after at most max_attempts
\* make_bucket calls and at most 2 * max_attempts bucket_exists calls.  When it
\* gives up it raises the most recent exception caught in any attempt, if an
\* attempt raised, also when later attempts completed without raising, and
\* otherwise a RuntimeError that names the bucket and the number of attempts;
\* it returns normally only after a bucket_exists check that reported true.
C37_EnsureTerminatesWithinBounds ==
    /\ [](call.op = "ensure_bucket_exists" => EnsureWithinBounds)
    /\ <>EnsureOver

\* C37 happens: of three attempts the first raised on its second check (status
\* 500) and the two later ones completed without raising and without finding
\* the bucket: six checks and three make_bucket calls were made, and the error
\* of the first attempt has been raised.
C37_Witness ==
    /\ call.op = "ensure_bucket_exists"
    /\ call.max_attempts = 3
    /\ Cardinality({i \in 1..Len(history) : IsCheck(i)}) = 6
    /\ Cardinality({i \in 1..Len(history) : IsMake(i)}) = 3
    /\ EnsureRaised = {3}
    /\ result # Pending
    /\ result.kind = "raise"
    /\ result.exc.type = "ServerException"
    /\ result.status_code = <<500>>

=============================================================================
